---- MODULE Spec2Model ----
(***************************************************************************)
(* Model of the spreadsheet core of doc-gen-streamlit (src/data_utils.py): *)
(* parse_company_and_transport, aggregate_company_metrics,                 *)
(* prepare_dashboard_summary, load_sheet_data and parse_transport_table;   *)
(* of the render loop and the choice of companies of display_dashboard     *)
(* (src/dashboard.py); and of generate_document                            *)
(* (src/generator_utils.py).                                               *)
(*                                                                         *)
(* Conventions of the model                                                *)
(*  - A Python str is a sequence of one-character strings.  The Cyrillic   *)
(*    letters of the sheet are written with the Latin letter of the same   *)
(*    position in the transliteration: the marker of the transport block   *)
(*    is written TRANSPORT +, the terminator prefix is written transp.     *)
(*  - A float is a whole number of tenths (8.3 is 83); a product of two    *)
(*    floats is a whole number of hundredths (50.0 * 8.3 is 41500).        *)
(*  - An optional float is a record [k, v]: k = "none" is Python None,     *)
(*    k = "nan" is float('nan'), k = "num" is the number v.                *)
(*  - A cell of the grid is a record [k, v, s]: k = "nan" is the float NaN *)
(*    pandas gives for an unfilled cell, k = "num" a float, k = "str" the  *)
(*    text s, k = "none" the None the code substitutes for a column the    *)
(*    grid does not have.                                                  *)
(*  - The costs of the dict parse_transport_table returns are floats in    *)
(*    hundredths, as records [k, v]; the maps handed to                    *)
(*    prepare_dashboard_summary hold finite costs as plain hundredths.     *)
(*  - A snapshot of the Google sheet is the number of edits it has had.    *)
(***************************************************************************)
EXTENDS Integers, Sequences, FiniteSets, TLC

VARIABLES
    df_raw,          \* the raw grid: [ncols, rows]
    pc,              \* position in the program
    i,               \* loop index of parse_company_and_transport
    transport_start, \* Optional[int]: <<>> is None, <<n>> is n
    transport_end,   \* Optional[int]
    sales_rows,      \* list of dicts accumulated by the sales loop
    transport_rows,  \* list of dicts accumulated by the transport loop
    sales_df,        \* sales table handed to aggregate_company_metrics
    transport_df,    \* transport table handed to aggregate_company_metrics
    company_filter,  \* Optional[set of str]: <<>> is None, <<S>> is the set S
    synonyms,        \* dict str -> str, as a set of pairs <<key, value>>
    result,          \* what aggregate_company_metrics returned
    deals,           \* df of prepare_dashboard_summary (headered table)
    clients_dict,    \* keys of clients.json
    transport_map,   \* dict surname -> cost of parse_transport_table
    dash,            \* what prepare_dashboard_summary returned
    filter_mode,     \* the choice of the company filter radio of display_dashboard
    default_selected,    \* list of company keys preselected by display_dashboard
    selected_companies,  \* list of company keys display_dashboard filters by
    df_deals,        \* the deal rows display_dashboard goes on to summarise
    call,            \* arguments of the running load_sheet_data call and its workbook
    excel_file,      \* Optional workbook opened by load_sheet_data
    attempts,        \* the sources load_sheet_data has tried, in order, with their outcome
    loaded,          \* what load_sheet_data returned or raised
    lru_cache,       \* the cache of _download_google_sheet: Optional snapshot
    remote,          \* the snapshot the Google sheet holds now
    refresh_data,    \* st.session_state['refresh_data']
    rendered,        \* what the last render of display_dashboard put on the page
    refresh_snap,    \* history: Optional snapshot of the last successful forced refresh
    request,         \* arguments and environment of a generate_document call
    generated        \* the tuple generate_document returned

vars == <<df_raw, pc, i, transport_start, transport_end, sales_rows,
          transport_rows, sales_df, transport_df, company_filter, synonyms,
          result, deals, clients_dict, transport_map, dash,
      filter_mode, default_selected, selected_companies, df_deals,
          call, excel_file, attempts, loaded, lru_cache, remote, refresh_data,
          rendered, refresh_snap, request, generated>>

\* the variables of display_dashboard
view_vars == <<filter_mode, default_selected, selected_companies, df_deals>>

\* display_dashboard is not running
ViewIdle ==
    /\ filter_mode = "" /\ default_selected = <<>>
    /\ selected_companies = <<>> /\ df_deals = <<>>

\* the variables of load_sheet_data and of the render loop around it
load_vars == <<call, excel_file, attempts, loaded, lru_cache, remote, refresh_data,
               rendered, refresh_snap>>

\* no load_sheet_data call and no render has happened
LoadIdle ==
    /\ call = <<>> /\ excel_file = <<>> /\ attempts = <<>> /\ loaded = <<>>
    /\ lru_cache = <<>> /\ remote = 0 /\ refresh_data = FALSE
    /\ rendered = <<>> /\ refresh_snap = <<>>

\* the variables of generate_document
gen_vars == <<request, generated>>

\* generate_document is not running
GenIdle == request = <<>> /\ generated = <<>>

\* the variables of the parser, of the aggregation and of the summary, pc apart
table_vars == <<df_raw, i, transport_start, transport_end, sales_rows,
                transport_rows, sales_df, transport_df, company_filter, synonyms,
                result, deals, clients_dict, transport_map, dash>>

-----------------------------------------------------------------------------
(* Python str operations *)

LowerAlpha == <<"a","b","c","d","e","f","g","h","i","j","k","l","m",
                "n","o","p","q","r","s","t","u","v","w","x","y","z">>

UpperAlpha == <<"A","B","C","D","E","F","G","H","I","J","K","L","M",
                "N","O","P","Q","R","S","T","U","V","W","X","Y","Z">>

\* str.lower on one character
LowerChar(c) ==
    IF \E n \in DOMAIN UpperAlpha : UpperAlpha[n] = c
    THEN LowerAlpha[CHOOSE n \in DOMAIN UpperAlpha : UpperAlpha[n] = c]
    ELSE c

\* str.upper on one character
UpperChar(c) ==
    IF \E n \in DOMAIN LowerAlpha : LowerAlpha[n] = c
    THEN UpperAlpha[CHOOSE n \in DOMAIN LowerAlpha : LowerAlpha[n] = c]
    ELSE c

Lower(s) == [n \in DOMAIN s |-> LowerChar(s[n])]

Upper(s) == [n \in DOMAIN s |-> UpperChar(s[n])]

IsSpace(c) == c = " "

RECURSIVE LStrip(_)
LStrip(s) == IF s # <<>> /\ IsSpace(Head(s)) THEN LStrip(Tail(s)) ELSE s

RECURSIVE RStrip(_)
RStrip(s) ==
    IF s # <<>> /\ IsSpace(s[Len(s)]) THEN RStrip(SubSeq(s, 1, Len(s) - 1)) ELSE s

\* str.strip()
Strip(s) == RStrip(LStrip(s))

\* str.startswith(p)
StartsWith(s, p) == Len(s) >= Len(p) /\ SubSeq(s, 1, Len(p)) = p

RECURSIVE TakeToken(_)
TakeToken(s) ==
    IF s = <<>> \/ IsSpace(Head(s)) THEN <<>> ELSE <<Head(s)>> \o TakeToken(Tail(s))

\* str.split()[0] of a string that holds a non-space character
FirstToken(s) == TakeToken(LStrip(s))

RECURSIVE RemoveChar(_, _)
\* str.replace(c, '')
RemoveChar(s, c) ==
    IF s = <<>> THEN <<>>
    ELSE (IF Head(s) = c THEN <<>> ELSE <<Head(s)>>) \o RemoveChar(Tail(s), c)

\* str.replace(a, b) for single characters
ReplaceChar(s, a, b) == [n \in DOMAIN s |-> IF s[n] = a THEN b ELSE s[n]]

-----------------------------------------------------------------------------
(* floats and their text *)

None == [k |-> "none", v |-> 0]

NaN == [k |-> "nan", v |-> 0]

Num(n) == [k |-> "num", v |-> n]

Digits == <<"0","1","2","3","4","5","6","7","8","9">>

IsDigit(c) == \E n \in DOMAIN Digits : Digits[n] = c

DigitVal(c) == (CHOOSE n \in DOMAIN Digits : Digits[n] = c) - 1

RECURSIVE NatStr(_)
\* str of a non-negative int
NatStr(n) == IF n < 10 THEN <<Digits[n + 1]>> ELSE NatStr(n \div 10) \o <<Digits[(n % 10) + 1]>>

\* str of a float given in tenths: 83 is "8.3", 800 is "80.0", -5 is "-0.5"
FloatStr(t) ==
    IF t < 0 THEN <<"-">> \o NatStr((-t) \div 10) \o <<".">> \o NatStr((-t) % 10)
    ELSE NatStr(t \div 10) \o <<".">> \o NatStr(t % 10)

AllDigits(s) == \A n \in DOMAIN s : IsDigit(s[n])

RECURSIVE NatVal(_)
NatVal(s) == IF s = <<>> THEN 0 ELSE NatVal(SubSeq(s, 1, Len(s) - 1)) * 10 + DigitVal(s[Len(s)])

\* position of the first '.' of s, 0 when there is none
DotPos(s) == IF \E n \in DOMAIN s : s[n] = "."
             THEN CHOOSE n \in DOMAIN s : s[n] = "." /\ \A m \in 1..(n - 1) : s[m] # "."
             ELSE 0

\* float(s) for an unsigned literal with at most one fractional digit, in
\* tenths; None stands for the ValueError float raises
UnsignedFloat(s) ==
    LET d == DotPos(s)
        ip == IF d = 0 THEN s ELSE SubSeq(s, 1, d - 1)
        fp == IF d = 0 THEN <<>> ELSE SubSeq(s, d + 1, Len(s))
    IN  IF (ip = <<>> /\ fp = <<>>) \/ ~AllDigits(ip) \/ ~AllDigits(fp) \/ Len(fp) > 1
        THEN None
        ELSE Num(NatVal(ip) * 10 + NatVal(fp))

\* Python float(s): surrounding whitespace is ignored, "nan" in any case is
\* float('nan'), a sign may lead, anything else that is not a decimal literal
\* raises ValueError (None here)
PyFloat(s0) ==
    LET s == Strip(s0)
        body == IF s # <<>> /\ Head(s) \in {"-", "+"} THEN Tail(s) ELSE s
        neg == s # <<>> /\ Head(s) = "-"
        u == UnsignedFloat(body)
    IN  IF Lower(body) = <<"n","a","n">> THEN NaN
        ELSE IF u.k = "num" /\ neg THEN Num(-u.v)
        ELSE u

\* pd.notna / pd.isna on an optional float
NotNa(x) == x.k = "num"

-----------------------------------------------------------------------------
(* cells of the grid *)

NanCell == [k |-> "nan", v |-> 0, s |-> <<>>]

NoneCell == [k |-> "none", v |-> 0, s |-> <<>>]

NumCell(n) == [k |-> "num", v |-> n, s |-> <<>>]

StrCell(t) == [k |-> "str", v |-> 0, s |-> t]

\* str(val)
Str(c) ==
    CASE c.k = "nan" -> <<"n","a","n">>
      [] c.k = "none" -> <<"N","o","n","e">>
      [] c.k = "num" -> FloatStr(c.v)
      [] OTHER -> c.s

-----------------------------------------------------------------------------
(* parse_company_and_transport: column positions and markers *)

idx_company == 0

idx_driver_info == 6

idx_service_price == 7

idx_price_per_ton == 12

idx_tonnage == 14

idx_profit == 19

idx_paid == 20

idx_B == 1

idx_F == 5

idx_G == 6

sales_start == 2

\* the literal of line 429, the marker row of the transport block
MarkerText == <<"T","R","A","N","S","P","O","R","T"," ","+">>

\* the literal of line 436, the prefix of the row that ends the block
TerminatorPrefix == <<"t","r","a","n","s","p">>

\* len(df_raw)
NRows == Len(df_raw.rows)

\* df_raw.iloc[n]: the row at 0-based position n
RowAt(n) == df_raw.rows[n + 1]

\* len(row)
RowLen == df_raw.ncols

\* row.iloc[c] if c < len(row) else None
CellOrNone(row, c) == IF c < RowLen THEN row[c] ELSE NoneCell

\* str(row.iloc[idx_company]) if idx_company < len(row) else ""
CompanyText(row) == IF idx_company < RowLen THEN Str(row[idx_company]) ELSE <<>>

\* a_val.strip().upper() == "ТРАНСПОРТ +"
IsMarkerRow(row) == Upper(Strip(CompanyText(row))) = MarkerText

\* str(df_raw.iloc[j, idx_company]).strip().lower().startswith("трансп")
IsTerminatorRow(row) == StartsWith(Lower(Strip(Str(row[idx_company]))), TerminatorPrefix)

\* the loop of lines 427-431
FirstMarker ==
    IF \E n \in 0..(NRows - 1) : IsMarkerRow(RowAt(n))
    THEN <<CHOOSE n \in 0..(NRows - 1) :
              IsMarkerRow(RowAt(n)) /\ \A m \in 0..(n - 1) : ~IsMarkerRow(RowAt(m))>>
    ELSE <<>>

\* a variant of FirstTerminator that compares the prefix case-sensitively
FirstTerminator_CaseSensitive(ts) ==
    IF ts = <<>> THEN <<>>
    ELSE IF \E j \in (ts[1] + 1)..(NRows - 1) :
               StartsWith(Strip(Str(RowAt(j)[idx_company])), TerminatorPrefix)
    THEN <<CHOOSE j \in (ts[1] + 1)..(NRows - 1) :
              StartsWith(Strip(Str(RowAt(j)[idx_company])), TerminatorPrefix)
              /\ \A m \in (ts[1] + 1)..(j - 1) :
                    ~StartsWith(Strip(Str(RowAt(m)[idx_company])), TerminatorPrefix)>>
    ELSE <<NRows>>

\* the loop of lines 433-442, given transport_start
FirstTerminator(ts) ==
    IF ts = <<>> THEN <<>>
    ELSE IF \E j \in (ts[1] + 1)..(NRows - 1) : IsTerminatorRow(RowAt(j))
    THEN <<CHOOSE j \in (ts[1] + 1)..(NRows - 1) :
              IsTerminatorRow(RowAt(j))
              /\ \A m \in (ts[1] + 1)..(j - 1) : ~IsTerminatorRow(RowAt(m))>>
    ELSE <<NRows>>

\* a variant of SalesEnd that runs the sales section to the end of the grid
SalesEnd_IgnoresMarker == NRows - 1

\* sales_end of line 445
SalesEnd == IF transport_start # <<>> THEN transport_start[1] - 1 ELSE NRows - 1

\* t_start of line 492
TStart == transport_start[1] + 1

\* t_end of line 493
TEnd == IF transport_end # <<>> THEN transport_end[1] ELSE NRows

\* a variant of _cell_empty that takes only None and NaN for empty
CellEmpty_NullOnly(val) == val.k = "none" \/ val.k = "nan"

\* _cell_empty of lines 459-460
CellEmpty(val) == val.k = "none" \/ val.k = "nan" \/ Strip(Str(val)) = <<>>

\* a variant of SkipForMissingKeys that skips only when all three are empty
SkipForMissingKeys_AllEmpty(row) ==
    /\ CellEmpty(CellOrNone(row, idx_B))
    /\ CellEmpty(CellOrNone(row, idx_F))
    /\ CellEmpty(CellOrNone(row, idx_G))

\* the presence test of line 467
SkipForMissingKeys(row) ==
    \/ CellEmpty(CellOrNone(row, idx_B))
    \/ CellEmpty(CellOrNone(row, idx_F))
    \/ CellEmpty(CellOrNone(row, idx_G))

\* a variant of parse_float that gives 0 for what does not parse
parse_float_ZeroDefault(val) ==
    LET s == Strip(Str(val))
        x == IF s = <<>> THEN None
             ELSE PyFloat(ReplaceChar(RemoveChar(s, " "), ",", "."))
    IN  IF x = None THEN Num(0) ELSE x

\* parse_float of lines 470-477
parse_float(val) ==
    LET s == Strip(Str(val))
    IN  IF s = <<>> THEN None
        ELSE PyFloat(ReplaceChar(RemoveChar(s, " "), ",", "."))

\* parse_float(row.iloc[c]) if c < len(row) else None
SalesNumber(row, c) == IF c < RowLen THEN parse_float(row[c]) ELSE None

\* line 485; <<>> is None, <<s>> is the text s
DriverInfo(row) ==
    IF idx_driver_info < RowLen /\ Strip(Str(row[idx_driver_info])) # <<>>
    THEN <<Strip(Str(row[idx_driver_info]))>>
    ELSE <<>>

\* the dict of lines 479-487
SalesRowOf(row, n) ==
    [company |-> Strip(CompanyText(row)),
     tonnage |-> SalesNumber(row, idx_tonnage),
     profit |-> SalesNumber(row, idx_profit),
     price_per_ton |-> SalesNumber(row, idx_price_per_ton),
     paid |-> SalesNumber(row, idx_paid),
     driver_info |-> DriverInfo(row),
     row_number |-> n + 1]

\* lines 450-468: the row at position n is kept
KeepsSalesRow(row) == Strip(CompanyText(row)) # <<>> /\ ~SkipForMissingKeys(row)

\* to_float of lines 500-504
to_float(val) == PyFloat(ReplaceChar(RemoveChar(Str(val), " "), ",", "."))

\* to_float(row.iloc[c]) if c < len(row) else None
TransportNumber(row, c) == IF c < RowLen THEN to_float(row[c]) ELSE None

\* a product of two floats, in hundredths; NaN when a factor is NaN
Product(a, b) == IF a.k = "num" /\ b.k = "num" THEN Num(a.v * b.v) ELSE NaN

\* the dict of lines 509-514
TransportRowOf(row) ==
    [surname |-> FirstToken(Strip(CompanyText(row))),
     price_service |-> TransportNumber(row, idx_service_price),
     tonnage |-> TransportNumber(row, idx_tonnage),
     cost |-> Product(TransportNumber(row, idx_service_price),
                      TransportNumber(row, idx_tonnage))]

\* lines 496-507: the row is kept
KeepsTransportRow(row) ==
    /\ Strip(CompanyText(row)) # <<>>
    /\ TransportNumber(row, idx_service_price) # None
    /\ TransportNumber(row, idx_tonnage) # None

-----------------------------------------------------------------------------
(* the grids the parser is run on *)

\* the number of rows below the two header rows
MaxBody == 3

\* a grid row: the cells of the columns the code reads
GridRow(a, b, f, g, h, m, o, t, u) ==
    (idx_company :> a) @@ (idx_B :> b) @@ (idx_F :> f) @@ (idx_G :> g)
    @@ (idx_service_price :> h) @@ (idx_price_per_ton :> m) @@ (idx_tonnage :> o)
    @@ (idx_profit :> t) @@ (idx_paid :> u)

TxtAb == <<"A","b">>

TxtPetrovI == <<"P","e","t","r","o","v"," ","I">>

\* a title row
HeaderRow ==
    GridRow(StrCell(<<"C","o">>), StrCell(<<"B">>), StrCell(<<"F">>), StrCell(<<"G">>),
            StrCell(<<"H">>), StrCell(<<"M">>), StrCell(<<"O">>), StrCell(<<"T">>),
            StrCell(<<"U">>))

\* a deal of company Ab, driver Petrov, 8.0 t at 100.0, profit 1000.0, unpaid
DealA ==
    GridRow(StrCell(TxtAb), NumCell(10), StrCell(<<"f">>), StrCell(TxtPetrovI),
            NanCell, NumCell(1000), NumCell(80), NumCell(10000), NanCell)

\* a deal of company " ab ", driver petrov, 8.5 t written "8,5", paid "1 000"
DealB ==
    GridRow(StrCell(<<" ","a","b"," ">>), StrCell(<<"2">>), NumCell(30),
            StrCell(<<"p","e","t","r","o","v">>), NanCell, StrCell(<<"1","0","0">>),
            StrCell(<<"8",",","5">>), StrCell(<<"x">>), StrCell(<<"1"," ","0","0","0">>))

\* DealA with an empty text in column B
BlankB == [DealA EXCEPT ![idx_B] = StrCell(<<>>)]

\* DealA with column F unfilled
NanF == [DealA EXCEPT ![idx_F] = NanCell]

\* DealA with only whitespace in column G
SpaceG == [DealA EXCEPT ![idx_G] = StrCell(<<" ">>)]

\* DealA with column A unfilled
NanCompany == [DealA EXCEPT ![idx_company] = NanCell]

\* DealA with only whitespace in column A
SpaceCompany == [DealA EXCEPT ![idx_company] = StrCell(<<" "," ">>)]

\* the marker row, in mixed case and with surrounding whitespace
MarkerRow ==
    GridRow(StrCell(<<" ","T","r","a","n","s","p","o","r","t"," ","+"," ">>),
            NanCell, NanCell, NanCell, NanCell, NanCell, NanCell, NanCell, NanCell)

\* the row that ends the transport block
TerminatorRow ==
    GridRow(StrCell(<<"T","r","a","n","s","p"," ","U">>),
            NanCell, NanCell, NanCell, NumCell(500), NanCell, NumCell(83), NanCell, NanCell)

\* a transport line: Petrov, 50.0 per unit, 8.3 t written "8,3"
TransportGood ==
    GridRow(StrCell(TxtPetrovI), NanCell, NanCell, NanCell, NumCell(500), NanCell,
            StrCell(<<"8",",","3">>), NanCell, NanCell)

\* a transport line whose price cell is unfilled
TransportNanPrice == [TransportGood EXCEPT ![idx_service_price] = NanCell]

\* a transport line whose tonnage cell is text
TransportTextTonnage == [TransportGood EXCEPT ![idx_tonnage] = StrCell(<<"x">>)]

\* a transport line with an empty surname and both numbers filled
TransportNoSurname == [TransportGood EXCEPT ![idx_company] = StrCell(<<" ">>)]

\* a row with no cell filled
EmptyRow ==
    GridRow(NanCell, NanCell, NanCell, NanCell, NanCell, NanCell, NanCell, NanCell, NanCell)

\* the width of a grid that has every column the code reads
FullWidth == idx_paid + 1

\* grids about the presence test on columns B, F and G; the narrow grid ends
\* before column G
PresenceGrids ==
    [heads |-> {[rows |-> <<HeaderRow, HeaderRow>>, ncols |-> FullWidth],
                [rows |-> <<DealA, DealA>>, ncols |-> FullWidth],
                [rows |-> <<HeaderRow, HeaderRow>>, ncols |-> idx_G]},
     palette |-> {DealA, DealB, BlankB, NanF, SpaceG, MarkerRow}]

\* grids about the company cell, and a grid whose first row is the marker
CompanyGrids ==
    [heads |-> {[rows |-> <<HeaderRow, HeaderRow>>, ncols |-> FullWidth],
                [rows |-> <<MarkerRow, DealA>>, ncols |-> FullWidth]},
     palette |-> {DealA, NanCompany, SpaceCompany, MarkerRow, TransportGood}]

\* grids about the transport block; the narrow grid ends before column O
TransportGrids ==
    [heads |-> {[rows |-> <<HeaderRow, HeaderRow>>, ncols |-> FullWidth],
                [rows |-> <<HeaderRow, MarkerRow>>, ncols |-> FullWidth],
                [rows |-> <<HeaderRow, MarkerRow>>, ncols |-> idx_tonnage]},
     palette |-> {MarkerRow, TerminatorRow, TransportGood, TransportNanPrice,
                  TransportTextTonnage, TransportNoSurname, EmptyRow}]

\* grid is one of the grids of family g: a head and up to MaxBody palette rows
IsGridOf(grid, g) ==
    \E h \in g.heads : \E n \in 0..MaxBody : \E b \in [1..n -> g.palette] :
        grid = [ncols |-> h.ncols, rows |-> h.rows \o b]

-----------------------------------------------------------------------------
(* parse_company_and_transport as a state machine *)

Idle ==
    /\ sales_df = <<>> /\ transport_df = <<>>
    /\ company_filter = <<>> /\ synonyms = {}
    /\ result = <<>>
    /\ deals = <<>> /\ clients_dict = {} /\ transport_map = {}
    /\ dash = <<>>
    /\ ViewIdle /\ LoadIdle /\ GenIdle

Init ==
    /\ \E g \in {PresenceGrids, CompanyGrids, TransportGrids} : IsGridOf(df_raw, g)
    /\ pc = "find_start"
    /\ i = 0
    /\ transport_start = <<>>
    /\ transport_end = <<>>
    /\ sales_rows = <<>>
    /\ transport_rows = <<>>
    /\ Idle

\* lines 427-431
FindTransportStart ==
    /\ pc = "find_start"
    /\ transport_start' = FirstMarker
    /\ pc' = "find_end"
    /\ UNCHANGED <<df_raw, i, transport_end, sales_rows, transport_rows, sales_df,
                   transport_df, company_filter, synonyms, result, deals,
                   clients_dict, transport_map, dash>>
    /\ UNCHANGED <<view_vars, load_vars, gen_vars>>

\* lines 433-445
FindTransportEnd ==
    /\ pc = "find_end"
    /\ transport_end' = FirstTerminator(transport_start)
    /\ i' = sales_start
    /\ pc' = "sales"
    /\ UNCHANGED <<df_raw, transport_start, sales_rows, transport_rows, sales_df,
                   transport_df, company_filter, synonyms, result, deals,
                   clients_dict, transport_map, dash>>
    /\ UNCHANGED <<view_vars, load_vars, gen_vars>>

\* one iteration of the loop of lines 447-488
SalesStep ==
    /\ pc = "sales"
    /\ i <= SalesEnd
    /\ sales_rows' = IF KeepsSalesRow(RowAt(i))
                     THEN Append(sales_rows, SalesRowOf(RowAt(i), i))
                     ELSE sales_rows
    /\ i' = i + 1
    /\ UNCHANGED <<df_raw, pc, transport_start, transport_end, transport_rows, sales_df,
                   transport_df, company_filter, synonyms, result, deals,
                   clients_dict, transport_map, dash>>
    /\ UNCHANGED <<view_vars, load_vars, gen_vars>>

\* the sales loop is exhausted; lines 490-493
SalesDone ==
    /\ pc = "sales"
    /\ i > SalesEnd
    /\ pc' = IF transport_start # <<>> THEN "transport" ELSE "frames"
    /\ i' = IF transport_start # <<>> THEN TStart ELSE i
    /\ UNCHANGED <<df_raw, transport_start, transport_end, sales_rows, transport_rows,
                   sales_df, transport_df, company_filter, synonyms, result, deals,
                   clients_dict, transport_map, dash>>
    /\ UNCHANGED <<view_vars, load_vars, gen_vars>>

\* one iteration of the loop of lines 494-515
TransportStep ==
    /\ pc = "transport"
    /\ i < TEnd
    /\ transport_rows' = IF KeepsTransportRow(RowAt(i))
                         THEN Append(transport_rows, TransportRowOf(RowAt(i)))
                         ELSE transport_rows
    /\ i' = i + 1
    /\ UNCHANGED <<df_raw, pc, transport_start, transport_end, sales_rows, sales_df,
                   transport_df, company_filter, synonyms, result, deals,
                   clients_dict, transport_map, dash>>
    /\ UNCHANGED <<view_vars, load_vars, gen_vars>>

\* the transport loop is exhausted
TransportDone ==
    /\ pc = "transport"
    /\ i >= TEnd
    /\ pc' = "frames"
    /\ UNCHANGED <<df_raw, i, transport_start, transport_end, sales_rows, transport_rows,
                   sales_df, transport_df, company_filter, synonyms, result, deals,
                   clients_dict, transport_map, dash>>
    /\ UNCHANGED <<view_vars, load_vars, gen_vars>>

\* pd.DataFrame(rows) on one float column: None becomes NaN unless the whole
\* column is None (the column then stays an object column of None)
FrameNumber(rows, col, x) ==
    IF x.k = "none" /\ \E n \in DOMAIN rows : rows[n][col].k # "none" THEN NaN ELSE x

\* pd.DataFrame(sales_rows) of line 516
SalesFrame(rows) ==
    [n \in DOMAIN rows |->
        [rows[n] EXCEPT !.tonnage = FrameNumber(rows, "tonnage", @),
                        !.profit = FrameNumber(rows, "profit", @),
                        !.price_per_ton = FrameNumber(rows, "price_per_ton", @),
                        !.paid = FrameNumber(rows, "paid", @)]]

\* lines 516-518
Return ==
    /\ pc = "frames"
    /\ sales_df' = SalesFrame(sales_rows)
    /\ transport_df' = transport_rows
    /\ pc' = "done"
    /\ UNCHANGED <<df_raw, i, transport_start, transport_end, sales_rows, transport_rows,
                   company_filter, synonyms, result, deals, clients_dict,
                   transport_map, dash>>
    /\ UNCHANGED <<view_vars, load_vars, gen_vars>>

Next ==
    \/ FindTransportStart
    \/ FindTransportEnd
    \/ SalesStep
    \/ SalesDone
    \/ TransportStep
    \/ TransportDone
    \/ Return

Spec == Init /\ [][Next]_vars

-----------------------------------------------------------------------------
(* what the claims about the parser speak of, stated on the grid itself *)

\* the cell at row n, column c of the grid; a column the grid lacks is missing
GridCell(n, c) == IF c < df_raw.ncols THEN df_raw.rows[n + 1][c] ELSE NoneCell

\* a cell that is empty, blank, NaN or missing
IsBlankCell(c) ==
    c.k \in {"nan", "none"} \/ (c.k = "str" /\ \A n \in DOMAIN c.s : c.s[n] = " ")

\* the trimmed text of the cell equals the marker, whatever the case
IsSentinelCell(c) == c.k = "str" /\ Lower(Strip(c.s)) = Lower(MarkerText)

HasSentinel == \E n \in 0..(Len(df_raw.rows) - 1) : IsSentinelCell(GridCell(n, 0))

\* s of claim C2: the first sentinel row, the number of rows when there is none
SentinelIndex ==
    IF HasSentinel
    THEN CHOOSE n \in 0..(Len(df_raw.rows) - 1) :
            IsSentinelCell(GridCell(n, 0))
            /\ \A m \in 0..(n - 1) : ~IsSentinelCell(GridCell(m, 0))
    ELSE Len(df_raw.rows)

\* the text of the cell starts with the terminator prefix, whatever the case
IsTerminatorCell(c) == c.k = "str" /\ StartsWith(Lower(c.s), Lower(TerminatorPrefix))

\* the first terminator row after the sentinel, the number of rows when none
TerminatorIndex ==
    IF \E n \in (SentinelIndex + 1)..(Len(df_raw.rows) - 1) : IsTerminatorCell(GridCell(n, 0))
    THEN CHOOSE n \in (SentinelIndex + 1)..(Len(df_raw.rows) - 1) :
            IsTerminatorCell(GridCell(n, 0))
            /\ \A m \in (SentinelIndex + 1)..(n - 1) : ~IsTerminatorCell(GridCell(m, 0))
    ELSE Len(df_raw.rows)

\* columns B, F and G of row n are all filled
KeysFilled(n) ==
    ~IsBlankCell(GridCell(n, 1)) /\ ~IsBlankCell(GridCell(n, 5)) /\ ~IsBlankCell(GridCell(n, 6))

\* some SalesRow was made from grid row n
HasSalesRowOf(n) == \E k \in DOMAIN sales_rows : sales_rows[k].row_number = n + 1

\* the text is a decimal number once spaces are removed and ',' is '.'
IsNumberText(t) == PyFloat(ReplaceChar(RemoveChar(t, " "), ",", ".")).k = "num"

\* the cell parses as a number
IsNumberCell(c) == c.k = "num" \/ (c.k = "str" /\ IsNumberText(c.s))

\* C2: every SalesRow comes from a grid row i with 2 <= i < s, s being the
\* first row whose trimmed column 0 equals the marker in any case (the number
\* of rows when there is none); rows 0 and 1 and the rows from the sentinel
\* on yield no SalesRow.
C2_SalesRowsInsideSalesSection ==
    LET s == SentinelIndex
    IN  \A k \in DOMAIN sales_rows :
        LET n == sales_rows[k].row_number - 1
        IN  /\ 2 <= n
            /\ n < s
            /\ (GridCell(n, 0).k = "str" => sales_rows[k].company = Strip(GridCell(n, 0).s))

\* the parser returned sales rows for a grid whose rows 0 and 1 and whose row
\* after the sentinel are all complete deal rows
C2_Witness ==
    /\ pc = "done"
    /\ sales_df # <<>>
    /\ HasSentinel
    /\ SentinelIndex + 1 < Len(df_raw.rows)
    /\ KeysFilled(0) /\ KeysFilled(1) /\ KeysFilled(SentinelIndex + 1)
    /\ ~IsBlankCell(GridCell(SentinelIndex + 1, 0))

\* C3: a TransportRow is only ever made from a row strictly after the sentinel
\* and strictly before the first later row whose column 0 starts with the
\* terminator prefix in any case (the end of the grid when there is none); with
\* no sentinel row the transport list stays empty.
C3_TransportRowsOnlyFromBlock ==
    /\ [][transport_rows' # transport_rows =>
            /\ HasSentinel
            /\ SentinelIndex < i /\ i < TerminatorIndex
            /\ Len(transport_rows') = Len(transport_rows) + 1
            /\ SubSeq(transport_rows', 1, Len(transport_rows)) = transport_rows
            /\ transport_rows'[Len(transport_rows')].surname
                  = FirstToken(Str(GridCell(i, 0)))]_vars
    /\ [](~HasSentinel => transport_rows = <<>> /\ transport_df = <<>>)

\* the parser returned transport rows for a grid with a terminator row that is
\* followed by one more complete transport line
C3_Witness ==
    /\ pc = "done"
    /\ transport_df # <<>>
    /\ TerminatorIndex + 1 < Len(df_raw.rows)
    /\ \E n \in (TerminatorIndex + 1)..(Len(df_raw.rows) - 1) :
          /\ ~IsBlankCell(GridCell(n, 0))
          /\ IsNumberCell(GridCell(n, 7)) /\ IsNumberCell(GridCell(n, 14))

\* C4: a row of the sales section with an empty, blank, NaN or missing cell in
\* column B, F or G yields no SalesRow; a row of the sales section with the
\* three cells filled and a non-empty column 0 yields one.
C4_PresenceFilter ==
    LET s == SentinelIndex
    IN  \A n \in 2..(s - 1) :
        /\ ~KeysFilled(n) => ~HasSalesRowOf(n)
        /\ (pc = "done" /\ KeysFilled(n) /\ ~IsBlankCell(GridCell(n, 0))) => HasSalesRowOf(n)

\* the parser finished on a grid whose sales section holds a row that lacks
\* only column B, a row that lacks only column F and a complete row
C4_Witness ==
    /\ pc = "done"
    /\ \E n \in 2..(SentinelIndex - 1) :
          /\ IsBlankCell(GridCell(n, 1))
          /\ ~IsBlankCell(GridCell(n, 5)) /\ ~IsBlankCell(GridCell(n, 6))
          /\ ~IsBlankCell(GridCell(n, 0))
    /\ \E n \in 2..(SentinelIndex - 1) :
          /\ IsBlankCell(GridCell(n, 5))
          /\ ~IsBlankCell(GridCell(n, 1)) /\ ~IsBlankCell(GridCell(n, 6))
    /\ \E n \in 2..(SentinelIndex - 1) : KeysFilled(n) /\ HasSalesRowOf(n)

\* C5: no SalesRow has an empty company: a row of the sales section whose
\* column 0 is a blank string, whitespace only or a missing/NaN cell is
\* skipped, also when its columns B, F and G are filled.
C5_NoSalesRowWithoutCompany ==
    \A k \in DOMAIN sales_rows : ~IsBlankCell(GridCell(sales_rows[k].row_number - 1, 0))

\* C6: a row of the transport section yields a TransportRow if and only if
\* its surname cell is not empty and its price cell (column 7) and tonnage
\* cell (column 14) both parse as numbers; an empty, missing, NaN or
\* non-numeric price or tonnage cell drops the row.
C6_TransportRowIffParsable ==
    [][(pc = "transport" /\ i < TEnd) =>
          ((transport_rows' # transport_rows)
             <=> (/\ ~IsBlankCell(GridCell(i, 0))
                  /\ IsNumberCell(GridCell(i, 7))
                  /\ IsNumberCell(GridCell(i, 14))))]_vars

\* the numeric columns of a SalesRow and the grid columns they are read from
NumericFields ==
    {<<"tonnage", idx_tonnage>>, <<"profit", idx_profit>>,
     <<"price_per_ton", idx_price_per_ton>>, <<"paid", idx_paid>>}

\* C17: for a sales row that passes the presence checks, a tonnage, profit,
\* price-per-ton or paid cell that is empty or not a number (spaces removed,
\* comma for dot) gives null for that field, never 0 and never an exception,
\* and the SalesRow is produced with its other fields intact.
C17_UnparsableCellGivesNull ==
    \A k \in DOMAIN sales_rows :
        LET n == sales_rows[k].row_number - 1
        IN  /\ \A f \in NumericFields :
                  LET c == GridCell(n, f[2])
                      x == sales_rows[k][f[1]]
                  IN  CASE c.k = "num" -> x = Num(c.v)
                        [] c.k = "str" /\ IsNumberText(c.s) -> x.k = "num"
                        [] OTHER -> x.k \in {"none", "nan"}
            /\ sales_rows[k].company = Strip(Str(GridCell(n, idx_company)))
            /\ sales_rows[k].driver_info = <<Strip(Str(GridCell(n, idx_driver_info)))>>

\* the parser finished with a SalesRow whose profit cell holds a text that is
\* no number and whose tonnage cell holds a number written with a comma, and
\* with a SalesRow whose paid cell is unfilled
C17_Witness ==
    /\ pc = "done"
    /\ \E k \in DOMAIN sales_rows :
          LET n == sales_rows[k].row_number - 1
          IN  /\ GridCell(n, 19).k = "str" /\ ~IsNumberText(GridCell(n, 19).s)
              /\ sales_rows[k].profit = None
              /\ GridCell(n, 14).k = "str" /\ sales_rows[k].tonnage = Num(85)
    /\ \E k \in DOMAIN sales_rows :
          LET n == sales_rows[k].row_number - 1
          IN  GridCell(n, 20).k = "nan" /\ sales_rows[k].paid.k # "num"

-----------------------------------------------------------------------------
(* aggregate_company_metrics *)

\* the characters of the model in code-point order, for the order of str
CodePoints ==
    <<" ","+",",","-",".">> \o Digits \o UpperAlpha \o LowerAlpha

CodePoint(c) == CHOOSE n \in DOMAIN CodePoints : CodePoints[n] = c

RECURSIVE StrLess(_, _)
\* a < b on str
StrLess(a, b) ==
    IF b = <<>> THEN FALSE
    ELSE IF a = <<>> THEN TRUE
    ELSE IF Head(a) = Head(b) THEN StrLess(Tail(a), Tail(b))
    ELSE CodePoint(Head(a)) < CodePoint(Head(b))

RECURSIVE SortedStrs_Descending(_)
\* a variant of SortedStrs that lists the greatest first
SortedStrs_Descending(S) ==
    IF S = {} THEN <<>>
    ELSE LET most == CHOOSE x \in S : \A y \in S \ {x} : StrLess(y, x)
         IN  <<most>> \o SortedStrs_Descending(S \ {most})

RECURSIVE SortedStrs(_)
\* the strings of a set in ascending order
SortedStrs(S) ==
    IF S = {} THEN <<>>
    ELSE LET least == CHOOSE x \in S : \A y \in S \ {x} : StrLess(x, y)
         IN  <<least>> \o SortedStrs(S \ {least})

RECURSIVE SumOf(_, _)
\* the sum of f over the index set S
SumOf(f, S) ==
    IF S = {} THEN 0
    ELSE LET n == CHOOSE x \in S : TRUE IN f[n] + SumOf(f, S \ {n})

Abs(x) == IF x < 0 THEN -x ELSE x

\* a number of tenths in hundredths
Hundredths(t) == t * 10

\* Series.fillna(0) / a sum that skips NaN: the number, 0 for None and NaN
OrZero(x) == IF x.k = "num" THEN x.v ELSE 0

\* dict.get(k, dflt) on a dict given as a set of pairs
DictGet(d, key, dflt) ==
    IF \E e \in d : e[1] = key THEN (CHOOSE e \in d : e[1] = key)[2] ELSE dflt

\* line 552
CompanyLower(row) == Strip(Lower(row.company))

\* lines 554-557
CompanyMapped(row, syn) ==
    IF syn # {} THEN DictGet(syn, CompanyLower(row), CompanyLower(row))
    ELSE CompanyLower(row)

\* a variant of PassesFilter that takes an empty filter for no filter
PassesFilter_EmptyMeansAll(row, filter, syn) ==
    filter = <<>> \/ filter[1] = {}
    \/ CompanyMapped(row, syn) \in {Lower(c) : c \in filter[1]}

\* lines 559-561: the row passes the company filter
PassesFilter(row, filter, syn) ==
    filter = <<>> \/ CompanyMapped(row, syn) \in {Lower(c) : c \in filter[1]}

\* line 565
SurnameLower(trow) == Strip(Lower(trow.surname))

\* the tolerance of line 584, 1.0 t, in tenths
MatchTolerance == 10

\* a variant of Matches that also accepts a difference of exactly 1.0
Matches_Inclusive(surname, ton, tdf) ==
    {m \in DOMAIN tdf :
        /\ SurnameLower(tdf[m]) = surname
        /\ tdf[m].tonnage.k = "num"
        /\ Abs(tdf[m].tonnage.v - ton) <= MatchTolerance}

\* lines 582-585: the positions of the transport rows that match
Matches(surname, ton, tdf) ==
    {m \in DOMAIN tdf :
        /\ SurnameLower(tdf[m]) = surname
        /\ tdf[m].tonnage.k = "num"
        /\ Abs(tdf[m].tonnage.v - ton) < MatchTolerance}

\* match_transport_cost of lines 568-588, in hundredths
match_transport_cost(row, tdf) ==
    IF row.driver_info = <<>> \/ Strip(row.driver_info[1]) = <<>> \/ ~NotNa(row.tonnage)
    THEN 0
    ELSE IF tdf = <<>> THEN 0
    ELSE SumOf([m \in DOMAIN tdf |-> OrZero(tdf[m].cost)],
               Matches(Lower(FirstToken(Strip(row.driver_info[1]))), row.tonnage.v, tdf))

\* a variant of TransportCosts that counts a transport row only for the first
\* sales row it matches
TransportCosts_Exclusive(df, tdf) ==
    LET hit(n) ==
            IF df[n].driver_info = <<>> \/ Strip(df[n].driver_info[1]) = <<>>
               \/ ~NotNa(df[n].tonnage)
            THEN {}
            ELSE Matches(Lower(FirstToken(Strip(df[n].driver_info[1]))), df[n].tonnage.v, tdf)
    IN  [n \in DOMAIN df |->
            SumOf([m \in DOMAIN tdf |-> OrZero(tdf[m].cost)],
                  {m \in hit(n) : \A k \in 1..(n - 1) : m \notin hit(k)})]

\* df.apply(match_transport_cost, axis=1) of line 589
TransportCosts(df, tdf) == [n \in DOMAIN df |-> match_transport_cost(df[n], tdf)]

\* a variant of calc_debt that treats an overpayment as no debt
calc_debt_Clamped(row) ==
    LET d == (IF NotNa(row.tonnage) /\ NotNa(row.price_per_ton)
              THEN row.tonnage.v * row.price_per_ton.v ELSE 0)
             - (IF NotNa(row.paid) THEN Hundredths(row.paid.v) ELSE 0)
    IN  IF d < 0 THEN 0 ELSE d

\* calc_debt of lines 596-606, in hundredths
calc_debt(row) ==
    (IF NotNa(row.tonnage) /\ NotNa(row.price_per_ton)
     THEN row.tonnage.v * row.price_per_ton.v ELSE 0)
    - (IF NotNa(row.paid) THEN Hundredths(row.paid.v) ELSE 0)

\* a variant of Annotated whose net_profit lacks the fillna(0) on profit: a
\* row without profit has a NaN net_profit, which the group sum skips
Annotated_NoFillna(sales, tdf, filter, syn) ==
    LET df == SelectSeq(sales, LAMBDA r : PassesFilter(r, filter, syn))
        tc == TransportCosts(df, tdf)
    IN  [n \in DOMAIN df |->
            [src |-> df[n],
             company_mapped |-> CompanyMapped(df[n], syn),
             transport_cost |-> tc[n],
             net_profit |-> IF NotNa(df[n].profit)
                            THEN Hundredths(df[n].profit.v) - tc[n] ELSE 0,
             debt |-> calc_debt(df[n])]]

\* lines 550-607: the filtered rows with their derived columns
Annotated(sales, tdf, filter, syn) ==
    LET df == SelectSeq(sales, LAMBDA r : PassesFilter(r, filter, syn))
        tc == TransportCosts(df, tdf)
    IN  [n \in DOMAIN df |->
            [src |-> df[n],
             company_mapped |-> CompanyMapped(df[n], syn),
             transport_cost |-> tc[n],
             net_profit |-> Hundredths(OrZero(df[n].profit)) - tc[n],
             debt |-> calc_debt(df[n])]]

\* the positions of the rows of one group
GroupOf(df, key) == {n \in DOMAIN df : df[n].company_mapped = key}

\* lines 609-619: one record per company_mapped, in ascending order of the key
Grouped(df) ==
    LET keys == SortedStrs({df[n].company_mapped : n \in DOMAIN df})
    IN  [g \in DOMAIN keys |->
            LET G == GroupOf(df, keys[g])
                first == CHOOSE n \in G : \A m \in G : n <= m
            IN  [company |-> df[first].src.company,
                 tonnage |-> SumOf([n \in DOMAIN df |-> OrZero(df[n].src.tonnage)], G),
                 profit |-> SumOf([n \in DOMAIN df |-> OrZero(df[n].src.profit)], G),
                 transport_cost |-> SumOf([n \in DOMAIN df |-> df[n].transport_cost], G),
                 net_profit |-> SumOf([n \in DOMAIN df |-> df[n].net_profit], G),
                 debt |-> SumOf([n \in DOMAIN df |-> df[n].debt], G)]]

\* line 623
NeedsAttention(r) == ~NotNa(r.src.tonnage) \/ r.src.tonnage.v <= 0

\* line 625
LacksDriver(r) == r.src.driver_info = <<>> \/ Strip(r.src.driver_info[1]) = <<>>

\* what a call that raised leaves
Raised ==
    [raised |-> TRUE, df |-> <<>>, summary |-> <<>>, debt_table |-> <<>>,
     attention |-> <<>>, missing_driver |-> <<>>, transport_details |-> <<>>]

\* aggregate_company_metrics, lines 521-632.  A sales table without rows is
\* the column-less pd.DataFrame([]) the parser returns: df['company'] raises.
aggregate_company_metrics(sales, tdf, filter, syn) ==
    IF sales = <<>> THEN Raised
    ELSE LET df == Annotated(sales, tdf, filter, syn)
             grouped == Grouped(df)
         IN  [raised |-> FALSE,
              df |-> df,
              summary |-> grouped,
              debt_table |-> [g \in DOMAIN grouped |->
                                 [company |-> grouped[g].company, debt |-> grouped[g].debt]],
              attention |-> SelectSeq(df, NeedsAttention),
              missing_driver |-> SelectSeq(df, LacksDriver),
              transport_details |-> tdf]

-----------------------------------------------------------------------------
(* aggregate_company_metrics run on tables given directly *)

\* the number of rows of the sales table
MaxSales == 2

\* the number of rows of the transport table
MaxTransport == 2

SaleRow(company, tonnage, profit, price, paid, driver, rn) ==
    [company |-> company, tonnage |-> tonnage, profit |-> profit,
     price_per_ton |-> price, paid |-> paid, driver_info |-> driver, row_number |-> rn]

TxtPetrov == <<"P","e","t","r","o","v">>

TxtIvanov == <<"I","v","a","n","o","v">>

\* Ab, 8.0 t, driver Petrov, unpaid
SaleAb80 == SaleRow(TxtAb, Num(80), Num(10000), Num(1000), NaN, <<TxtPetrovI>>, 3)

\* ab, 8.5 t, driver petrov, no profit, paid more than due
SaleAb85 ==
    SaleRow(<<"a","b">>, Num(85), NaN, Num(1000), Num(10000),
            <<<<"p","e","t","r","o","v">>>>, 4)

\* Cd, 9.0 t, driver PETROV, no price, paid 50.0
SaleCd90 ==
    SaleRow(<<"C","d">>, Num(90), Num(5000), NaN, Num(500),
            <<<<"P","E","T","R","O","V"," ","x">>>>, 5)

\* Cd, no tonnage, driver Petrov
SaleCdNoTonnage == SaleRow(<<"C","d">>, NaN, Num(2000), Num(1000), NaN, <<TxtPetrov>>, 6)

\* Ab, 8.0 t, no driver, a loss
SaleAbNoDriver == SaleRow(TxtAb, Num(80), Num(-3000), Num(1000), Num(800), <<>>, 7)

\* Ab, 8.3 t, a blank driver text
SaleAbBlankDriver == SaleRow(TxtAb, Num(83), Num(1000), Num(1000), NaN, <<<<" ">>>>, 8)

SalePalette ==
    {SaleAb80, SaleAb85, SaleCd90, SaleCdNoTonnage, SaleAbNoDriver, SaleAbBlankDriver}

TransportRow(surname, price, tonnage) ==
    [surname |-> surname, price_service |-> price, tonnage |-> tonnage,
     cost |-> Product(price, tonnage)]

TransportPalette ==
    {TransportRow(TxtPetrov, Num(500), Num(83)),
     TransportRow(<<"p","e","t","r","o","v">>, Num(500), Num(90)),
     TransportRow(TxtIvanov, Num(100), Num(83)),
     TransportRow(TxtPetrov, NaN, Num(80)),
     TransportRow(TxtPetrov, Num(500), NaN)}

\* company_filter and synonyms of a call
CallOptions ==
    {[company_filter |-> <<>>, synonyms |-> {}],
     [company_filter |-> <<{<<"a","b">>}>>, synonyms |-> {}],
     [company_filter |-> <<>>, synonyms |-> {<<<<"a","b">>, <<"c","d">>>>}]}

InitAgg ==
    /\ \E n \in 0..MaxSales : sales_df \in [1..n -> SalePalette]
    /\ \E n \in 0..MaxTransport : transport_df \in [1..n -> TransportPalette]
    /\ \E o \in CallOptions : company_filter = o.company_filter /\ synonyms = o.synonyms
    /\ pc = "aggregate"
    /\ result = <<>>
    /\ df_raw = <<>> /\ i = 0 /\ transport_start = <<>> /\ transport_end = <<>>
    /\ sales_rows = <<>> /\ transport_rows = <<>>
    /\ deals = <<>> /\ clients_dict = {} /\ transport_map = {} /\ dash = <<>>
    /\ ViewIdle /\ LoadIdle /\ GenIdle

\* one call of aggregate_company_metrics
Aggregate ==
    /\ pc = "aggregate"
    /\ result' = aggregate_company_metrics(sales_df, transport_df, company_filter, synonyms)
    /\ pc' = "returned"
    /\ UNCHANGED <<df_raw, i, transport_start, transport_end, sales_rows, transport_rows,
                   sales_df, transport_df, company_filter, synonyms, deals,
                   clients_dict, transport_map, dash>>
    /\ UNCHANGED <<view_vars, load_vars, gen_vars>>

NextAgg == Aggregate

SpecAgg == InitAgg /\ [][NextAgg]_vars

-----------------------------------------------------------------------------
(* aggregate_company_metrics run with company filters and synonym tables *)

\* company_filter and synonyms of a call: no filter, a filter written with a
\* capital, a synonym table in lower case, one with a capitalised full name
\* (as 'staf' -> 'TD Staf' of dashboard.py), that table with a filter naming
\* the full name, and the empty filter
KeyOptions ==
    {[company_filter |-> <<>>, synonyms |-> {}],
     [company_filter |-> <<{TxtAb}>>, synonyms |-> {}],
     [company_filter |-> <<>>, synonyms |-> {<<<<"a","b">>, <<"c","d">>>>}],
     [company_filter |-> <<>>, synonyms |-> {<<<<"a","b">>, <<"C","d">>>>}],
     [company_filter |-> <<{<<"C","d">>}>>, synonyms |-> {<<<<"a","b">>, <<"C","d">>>>}],
     [company_filter |-> <<{}>>, synonyms |-> {}]}

\* the transport tables of these calls: none, or one row of Petrov
KeyTransport == {<<>>, <<TransportRow(TxtPetrov, Num(500), Num(83))>>}

InitKeys ==
    /\ \E n \in 0..MaxSales : sales_df \in [1..n -> SalePalette]
    /\ transport_df \in KeyTransport
    /\ \E o \in KeyOptions : company_filter = o.company_filter /\ synonyms = o.synonyms
    /\ pc = "aggregate"
    /\ result = <<>>
    /\ df_raw = <<>> /\ i = 0 /\ transport_start = <<>> /\ transport_end = <<>>
    /\ sales_rows = <<>> /\ transport_rows = <<>>
    /\ deals = <<>> /\ clients_dict = {} /\ transport_map = {} /\ dash = <<>>
    /\ ViewIdle /\ LoadIdle /\ GenIdle

NextKeys == Aggregate

SpecKeys == InitKeys /\ [][NextKeys]_vars

-----------------------------------------------------------------------------
(* what the claims about the aggregation speak of, stated on the tables *)

\* the text is missing or holds no character other than whitespace
IsBlankText(d) == d = <<>> \/ \A n \in DOMAIN d[1] : d[1][n] = " "

\* the rows of the call that are included, in source order
IncludedRows == [n \in DOMAIN result.df |-> result.df[n].src]

\* transport row m is a candidate for sales row r: same surname in lower case
\* and tonnages less than 1.0 apart
IsCandidate(r, m) ==
    /\ Lower(transport_df[m].surname) = Lower(FirstToken(r.driver_info[1]))
    /\ transport_df[m].tonnage.k = "num"
    /\ transport_df[m].tonnage.v - r.tonnage.v < 10
    /\ r.tonnage.v - transport_df[m].tonnage.v < 10

RECURSIVE CandidateCost(_, _)
\* the sum of cost over the candidates of r among the first n transport rows;
\* a cost that is NaN adds nothing
CandidateCost(r, n) ==
    IF n = 0 THEN 0
    ELSE CandidateCost(r, n - 1)
         + (IF IsCandidate(r, n) /\ transport_df[n].cost.k = "num"
            THEN transport_df[n].cost.v ELSE 0)

\* the canonical company key of an included row
KeyOf(n) == result.df[n].company_mapped

RECURSIVE GroupTotal(_, _, _)
\* the sum of f over the rows of company key among the first n included rows
GroupTotal(f, key, n) ==
    IF n = 0 THEN 0
    ELSE GroupTotal(f, key, n - 1) + (IF KeyOf(n) = key THEN f[n] ELSE 0)

NullAsZero(x) == IF x.k = "num" THEN x.v ELSE 0

\* tonnage * price_per_ton (0 if either is null) minus paid (0 if null), in
\* hundredths
RowDebt(r) ==
    (IF r.tonnage.k = "num" /\ r.price_per_ton.k = "num"
     THEN r.tonnage.v * r.price_per_ton.v ELSE 0) - 10 * NullAsZero(r.paid)

Returned == pc = "returned" /\ ~result.raised

\* C1: a sales row with a driver and a tonnage T gets as transport_cost the
\* sum of cost over exactly the transport rows of the same lower-cased
\* surname with |T - T'| < 1.0 (0 when there is none; a difference of exactly
\* 1.0 does not match); a row with a null or blank driver_info gets 0.
C1_TransportCostIsSumOfCandidates ==
    Returned =>
        \A n \in DOMAIN result.df :
            LET r == result.df[n].src
            IN  /\ IsBlankText(r.driver_info) => result.df[n].transport_cost = 0
                /\ (~IsBlankText(r.driver_info) /\ r.tonnage.k = "num") =>
                      result.df[n].transport_cost = CandidateCost(r, Len(transport_df))

\* a call returned in which one sales row has two candidates and another has a
\* transport row of its driver exactly 1.0 t away
C1_Witness ==
    /\ Returned
    /\ \E n \in DOMAIN result.df :
          LET r == result.df[n].src
          IN  /\ ~IsBlankText(r.driver_info) /\ r.tonnage.k = "num"
              /\ Cardinality({m \in DOMAIN transport_df : IsCandidate(r, m)}) = 2
              /\ result.df[n].transport_cost > 0
    /\ \E n \in DOMAIN result.df : \E m \in DOMAIN transport_df :
          LET r == result.df[n].src
          IN  /\ ~IsBlankText(r.driver_info) /\ r.tonnage.k = "num"
              /\ Lower(transport_df[m].surname) = Lower(FirstToken(r.driver_info[1]))
              /\ transport_df[m].tonnage.k = "num"
              /\ transport_df[m].tonnage.v - r.tonnage.v = 10
              /\ transport_df[m].cost.k = "num"

\* C8: in the summary every company group has tonnage = the sum of its rows'
\* tonnages and profit = the sum of its rows' profits, null counted as 0,
\* transport_cost = the sum of its rows' transport costs, and net_profit =
\* profit - transport_cost of the same group.
C8_GroupSums ==
    Returned =>
        LET N == Len(result.df)
            keys == {KeyOf(n) : n \in 1..N}
        IN  /\ Len(result.summary) = Cardinality(keys)
            /\ \A key \in keys : \E g \in DOMAIN result.summary :
                  /\ result.summary[g].tonnage
                        = GroupTotal([n \in 1..N |-> NullAsZero(IncludedRows[n].tonnage)], key, N)
                  /\ result.summary[g].profit
                        = GroupTotal([n \in 1..N |-> NullAsZero(IncludedRows[n].profit)], key, N)
                  /\ result.summary[g].transport_cost
                        = GroupTotal([n \in 1..N |-> result.df[n].transport_cost], key, N)
            /\ \A g \in DOMAIN result.summary :
                  result.summary[g].net_profit
                     = 10 * result.summary[g].profit - result.summary[g].transport_cost

\* a call returned a group holding a row without profit that has a transport
\* cost, next to a row with a profit
C8_Witness ==
    /\ Returned
    /\ \E n, k \in DOMAIN result.df :
          /\ KeyOf(n) = KeyOf(k)
          /\ result.df[n].src.profit.k # "num" /\ result.df[n].transport_cost > 0
          /\ result.df[k].src.profit.k = "num" /\ result.df[k].src.tonnage.k = "num"

\* C9: the debt of a company group is the sum over its rows of tonnage *
\* price_per_ton (0 if either is null) minus paid (0 if null), kept signed: a
\* group that paid more than is due has a negative debt.
C9_SignedDebt ==
    Returned =>
        LET N == Len(result.df)
            keys == {KeyOf(n) : n \in 1..N}
            due == [n \in 1..N |-> RowDebt(IncludedRows[n])]
        IN  /\ Len(result.debt_table) = Cardinality(keys)
            /\ \A key \in keys : \E g \in DOMAIN result.summary :
                  /\ result.summary[g].debt = GroupTotal(due, key, N)
                  /\ result.debt_table[g].debt = GroupTotal(due, key, N)

\* a call returned a group whose debt is negative, and the table holds a row
\* without price and a row without payment
C9_Witness ==
    /\ Returned
    /\ \E g \in DOMAIN result.debt_table : result.debt_table[g].debt < 0
    /\ \E n \in DOMAIN result.df :
          result.df[n].src.paid.k # "num" /\ result.df[n].src.tonnage.k = "num"
          /\ result.df[n].debt > 0

\* C10: the transport_cost of a sales row depends on that row and on the
\* transport table only: it is what the row gets when it is the only sales
\* row, so a transport row counts in full for every sales row it matches.
C10_MatchingIsPerRow ==
    Returned =>
        \A n \in DOMAIN result.df :
            result.df[n].transport_cost
               = TransportCosts(<<result.df[n].src>>, transport_df)[1]

\* a call returned with two sales rows of driver Petrov, 8.0 t and 8.5 t, and
\* one transport row of Petrov, 8.3 t, whose cost both rows got in full
C10_Witness ==
    /\ Returned
    /\ Len(result.df) = 2 /\ Len(transport_df) = 1
    /\ result.df[1].src.tonnage = Num(80) /\ result.df[2].src.tonnage = Num(85)
    /\ transport_df[1].tonnage = Num(83) /\ transport_df[1].cost.k = "num"
    /\ ~IsBlankText(result.df[1].src.driver_info)
    /\ ~IsBlankText(result.df[2].src.driver_info)
    /\ IsCandidate(result.df[1].src, 1) /\ IsCandidate(result.df[2].src, 1)
    /\ result.df[1].transport_cost = transport_df[1].cost.v
    /\ result.df[2].transport_cost = transport_df[1].cost.v

\* the call returned, whether or not it raised
Called == pc = "returned"

\* the canonical company key a sales row resolves to
ResolvedKey(r) == CompanyMapped(r, synonyms)

\* the summary has a group for key k: an included row carries it
HasGroup(k) == \E m \in DOMAIN result.df : result.df[m].company_mapped = k

\* key k is in the filter, compared in lower case
InFilter(k) == \E f \in company_filter[1] : Lower(f) = Lower(k)

\* C11: with a company filter F the summary has a group for a canonical key k
\* iff k is in F, compared in lower case, and a sales row resolves to k; with
\* no filter every company of the sales rows has a group; rows of companies
\* outside F are in no group.
C11_GroupIffInFilter ==
    Returned =>
        /\ \A n \in DOMAIN sales_df :
              HasGroup(ResolvedKey(sales_df[n]))
                 <=> (company_filter = <<>> \/ InFilter(ResolvedKey(sales_df[n])))
        /\ \A m \in DOMAIN result.df :
              company_filter = <<>> \/ InFilter(result.df[m].company_mapped)
        /\ Len(result.summary)
              = Cardinality({result.df[m].company_mapped : m \in DOMAIN result.df})

\* included rows n and m denote the same company through a synonym entry: the
\* name of n, lower-cased and trimmed, is an abbreviation and that of m is the
\* entry's full name
SameBySynonym(n, m) ==
    \E e \in synonyms :
        /\ Strip(Lower(result.df[n].src.company)) = e[1]
        /\ Strip(Lower(result.df[m].src.company)) = Strip(Lower(e[2]))

\* C12: the sales rows that denote one company after synonym resolution fall
\* into one group: a row named by an abbreviation of the synonym table and a
\* row named by that entry's full name are aggregated together, also when the
\* table writes the full name with capitals.
C12_SynonymsShareAGroup ==
    Returned =>
        \A n, m \in DOMAIN result.df :
            SameBySynonym(n, m) => result.df[n].company_mapped = result.df[m].company_mapped

\* C16: a call with an empty company filter, as opposed to no filter, on a
\* sales table that is not empty returns normally with an empty summary and
\* an empty debt table.
C16_EmptyFilterGivesEmptySummary ==
    (Called /\ company_filter = <<{}>> /\ sales_df # <<>>) =>
        /\ ~result.raised
        /\ result.summary = <<>>
        /\ result.debt_table = <<>>

\* a call with the empty filter returned on a table of two rows
C16_Witness ==
    /\ Called /\ company_filter = <<{}>>
    /\ Len(sales_df) = 2 /\ Len(transport_df) >= 1
    /\ ~result.raised /\ result.df = <<>>

\* the canonical keys of the included rows
IncludedKeys == {KeyOf(n) : n \in DOMAIN result.df}

\* the first included row, in source order, of key k
FirstRowOf(k) == CHOOSE n \in DOMAIN result.df :
                    KeyOf(n) = k /\ \A m \in 1..(n - 1) : KeyOf(m) # k

\* the key of the g-th record: the one with g - 1 smaller keys
KeyAt(g) == CHOOSE k \in IncludedKeys :
               Cardinality({j \in IncludedKeys : StrLess(j, k)}) = g - 1

\* C19: the summary has exactly one record per distinct canonical key of the
\* included rows, in ascending order of the key, named by the raw company
\* string of the first row of the group in source order; the same input
\* always gives the same summary.
C19_OneRecordPerKeyAscending ==
    Returned =>
        /\ Len(result.summary) = Cardinality(IncludedKeys)
        /\ \A g \in DOMAIN result.summary :
              /\ result.summary[g].company = result.df[FirstRowOf(KeyAt(g))].src.company
              /\ result.summary[g].tonnage
                    = GroupTotal([n \in DOMAIN result.df |->
                                     NullAsZero(result.df[n].src.tonnage)],
                                 KeyAt(g), Len(result.df))
        /\ result = aggregate_company_metrics(sales_df, transport_df, company_filter, synonyms)

\* a call returned two groups of one row each, and the row that comes first
\* in the table has the greater key and a raw name written with a capital
C19_Witness ==
    /\ Returned
    /\ Len(result.summary) = 2 /\ Len(result.df) = 2
    /\ KeyOf(1) = KeyAt(2) /\ KeyOf(2) = KeyAt(1)
    /\ result.df[1].src.company # KeyOf(1)
    /\ result.summary[2].company = result.df[1].src.company

-----------------------------------------------------------------------------
(* parse_company_and_transport followed by aggregate_company_metrics *)

\* aggregate_company_metrics called on the two tables the parser returned,
\* with the default company_filter and synonyms
AggregateParsed ==
    /\ pc = "done"
    /\ result' = aggregate_company_metrics(sales_df, transport_df, <<>>, {})
    /\ pc' = "aggregated"
    /\ UNCHANGED <<df_raw, i, transport_start, transport_end, sales_rows, transport_rows,
                   sales_df, transport_df, company_filter, synonyms, deals,
                   clients_dict, transport_map, dash>>
    /\ UNCHANGED <<view_vars, load_vars, gen_vars>>

NextPipe == Next \/ AggregateParsed

SpecPipe == Init /\ [][NextPipe]_vars

\* C15: for every grid, whatever its cells and number of rows, the parser
\* followed by the aggregation on its output completes and returns a result,
\* also when no grid row survives as a SalesRow: the summary is then empty.
C15_PipelineNeverRaises ==
    pc = "aggregated" =>
        /\ ~result.raised
        /\ sales_rows = <<>> => result.summary = <<>>

FloatEq(a, b) == a.k = "num" /\ b.k = "num" /\ a.v = b.v

\* C18: every TransportRow the parser returns has cost = price_service *
\* tonnage, and the aggregation leaves the cost of every transport row as it
\* was when it sums it into the transport_cost of a sales row.
C18_CostIsPriceTimesTonnage ==
    /\ \A m \in DOMAIN transport_rows :
          FloatEq(transport_rows[m].cost,
                  Product(transport_rows[m].price_service, transport_rows[m].tonnage))
    /\ (pc = "aggregated" /\ ~result.raised) =>
          /\ Len(result.transport_details) = Len(transport_df)
          /\ \A m \in DOMAIN transport_df :
                result.transport_details[m].cost = transport_df[m].cost

-----------------------------------------------------------------------------
(* prepare_dashboard_summary *)

(***************************************************************************)
(* A row of the headered month table keeps the columns the function reads: *)
(* company (the company column), ds_num (the addendum number), volume (the *)
(* shipped tonnage), profit (the earned total), driver (the driver data),  *)
(* defer_days (the payment deferral) and paid (paid by the counterparty).  *)
(* company and driver are cells, the others optional floats; ds_num and    *)
(* defer_days count whole units.  The values of transport_map are in       *)
(* hundredths, so rounding to two places leaves them as they are, as       *)
(* rounding to three places leaves a number of tenths.                     *)
(***************************************************************************)

\* line 314
CompanyKey(row) == Strip(Lower(Str(row.company)))

\* line 315
ClientRows(df, clients) == SelectSeq(df, LAMBDA r : CompanyKey(r) \in clients)

\* lines 324 and 351: the driver cell is a text with a non-space character
HasDriver(row) == row.driver.k = "str" /\ Strip(row.driver.s) # <<>>

\* lines 325 and 352
DriverSurname(row) == Lower(FirstToken(Strip(row.driver.s)))

\* lines 322-325 and 349-352: the surnames named in the rows
Surnames(rows) == {DriverSurname(rows[n]) : n \in {m \in DOMAIN rows : HasDriver(rows[m])}}

\* the keys of transport_map
MapKeys(tmap) == {e[1] : e \in tmap}

RECURSIVE MapTotal(_, _)
\* lines 327-329 and 353-355: the sum of transport_map[s] over the surnames S
\* that are keys of the map
MapTotal(tmap, S) ==
    IF S = {} THEN 0
    ELSE LET x == CHOOSE y \in S : TRUE
         IN  (IF x \in MapKeys(tmap) THEN DictGet(tmap, x, 0) ELSE 0)
             + MapTotal(tmap, S \ {x})

\* the largest of a non-empty set of integers
MaxOf(S) == CHOOSE x \in S : \A y \in S : y <= x

\* lines 334-337: Optional[int]
LastNum(rows) ==
    LET nums == {rows[n].ds_num.v : n \in {m \in DOMAIN rows : NotNa(rows[m].ds_num)}}
    IN  IF nums = {} THEN <<>> ELSE <<MaxOf(nums)>>

\* lines 345-346: Optional[int]
MaxDeferDays(rows) ==
    LET pending == {n \in DOMAIN rows : OrZero(rows[n].defer_days) >= 1 /\ ~NotNa(rows[n].paid)}
    IN  IF pending = {} THEN <<>> ELSE <<MaxOf({rows[n].defer_days.v : n \in pending})>>

\* a variant of DriverMissing that looks for unfilled cells only
DriverMissing_NullOnly(rows) == \E n \in DOMAIN rows : rows[n].driver.k \in {"nan", "none"}

\* lines 342-343
DriverMissing(rows) ==
    \E n \in DOMAIN rows :
        rows[n].driver.k \in {"nan", "none"} \/ Strip(Str(rows[n].driver)) = <<>>

\* lines 331-364: the record of one company
CompanyRecord(dfc, key, tmap) ==
    LET comp_df == SelectSeq(dfc, LAMBDA r : CompanyKey(r) = key)
    IN  [company |-> key,
         last_ds |-> LastNum(comp_df),
         volume |-> SumOf([n \in DOMAIN comp_df |-> OrZero(comp_df[n].volume)], DOMAIN comp_df),
         profit |-> SumOf([n \in DOMAIN comp_df |-> OrZero(comp_df[n].profit)], DOMAIN comp_df),
         driver_missing |-> DriverMissing(comp_df),
         defer_days |-> MaxDeferDays(comp_df),
         transport |-> MapTotal(tmap, Surnames(comp_df))]

\* prepare_dashboard_summary, lines 312-370
prepare_dashboard_summary(df, clients, tmap) ==
    LET dfc == ClientRows(df, clients)
        keys == SortedStrs({CompanyKey(dfc[n]) : n \in DOMAIN dfc})
        summary == [g \in DOMAIN keys |-> CompanyRecord(dfc, keys[g], tmap)]
    IN  [summary |-> summary,
         totals |->
            [total_volume |-> SumOf([g \in DOMAIN summary |-> summary[g].volume], DOMAIN summary),
             total_profit |-> SumOf([g \in DOMAIN summary |-> summary[g].profit], DOMAIN summary),
             total_transport |-> MapTotal(tmap, Surnames(dfc))]]

-----------------------------------------------------------------------------
(* prepare_dashboard_summary run on month tables given directly *)

\* the number of rows of the month table
MaxDeals == 3

DealRow(company, ds, volume, profit, driver, defer, paid) ==
    [company |-> company, ds_num |-> ds, volume |-> volume, profit |-> profit,
     driver |-> driver, defer_days |-> defer, paid |-> paid]

DealPalette ==
    {DealRow(StrCell(TxtAb), Num(1), Num(80), Num(10000), StrCell(TxtPetrovI), NaN, NaN),
     DealRow(StrCell(<<" ","c","d"," ">>), Num(2), Num(85), NaN,
             StrCell(<<"p","e","t","r","o","v">>), Num(5), NaN),
     DealRow(StrCell(TxtAb), NaN, NaN, Num(5000), NanCell, Num(0), Num(1000)),
     DealRow(StrCell(<<"C","d">>), Num(3), Num(90), Num(2000), StrCell(TxtIvanov), Num(3), Num(500)),
     DealRow(StrCell(<<"E","f">>), Num(4), Num(83), Num(700), StrCell(TxtPetrov), NaN, NaN),
     DealRow(StrCell(<<"c","d">>), Num(5), Num(10), Num(100), StrCell(<<" ">>), NaN, NaN)}

ClientSets == {{<<"a","b">>, <<"c","d">>}, {<<"a","b">>}}

TransportMaps ==
    {{},
     {<<<<"p","e","t","r","o","v">>, 41500>>},
     {<<<<"p","e","t","r","o","v">>, 41500>>, <<<<"i","v","a","n","o","v">>, 8300>>}}

InitDash ==
    /\ \E n \in 0..MaxDeals : deals \in [1..n -> DealPalette]
    /\ clients_dict \in ClientSets
    /\ transport_map \in TransportMaps
    /\ pc = "summary"
    /\ dash = <<>>
    /\ df_raw = <<>> /\ i = 0 /\ transport_start = <<>> /\ transport_end = <<>>
    /\ sales_rows = <<>> /\ transport_rows = <<>>
    /\ sales_df = <<>> /\ transport_df = <<>> /\ company_filter = <<>> /\ synonyms = {}
    /\ result = <<>>
    /\ ViewIdle /\ LoadIdle /\ GenIdle

\* one call of prepare_dashboard_summary
PrepareSummary ==
    /\ pc = "summary"
    /\ dash' = prepare_dashboard_summary(deals, clients_dict, transport_map)
    /\ pc' = "shown"
    /\ UNCHANGED <<df_raw, i, transport_start, transport_end, sales_rows, transport_rows,
                   sales_df, transport_df, company_filter, synonyms, result, deals,
                   clients_dict, transport_map>>
    /\ UNCHANGED <<view_vars, load_vars, gen_vars>>

NextDash == PrepareSummary

SpecDash == InitDash /\ [][NextDash]_vars

-----------------------------------------------------------------------------
(* the two summaries side by side: a call of aggregate_company_metrics or a *)
(* call of prepare_dashboard_summary                                        *)

InitCore == InitAgg \/ InitDash

NextCore == Aggregate \/ PrepareSummary

SpecCore == InitCore /\ [][NextCore]_vars

\* the deal rows of the client company with key k
DealsOf(k) == {n \in DOMAIN deals : Strip(Lower(Str(deals[n].company))) = k}

\* C20: a company is flagged as missing a driver exactly when one of its
\* included rows has a null or blank driver_info: prepare_dashboard_summary
\* sets the flag of a company iff such a row is among the company's rows, and
\* the missing_driver table of aggregate_company_metrics holds exactly the
\* included rows with a null or blank driver_info.
C20_MissingDriverFlag ==
    /\ pc = "shown" =>
          \A g \in DOMAIN dash.summary :
              dash.summary[g].driver_missing
                 <=> \E n \in DealsOf(dash.summary[g].company) : IsBlankCell(deals[n].driver)
    /\ Returned =>
          result.missing_driver
             = SelectSeq(result.df, LAMBDA r : IsBlankText(r.src.driver_info))

\* a summary flags a company for a blank driver text and leaves another
\* company, all of whose deals name a driver, unflagged
C20_Witness ==
    /\ pc = "shown"
    /\ \E g, h \in DOMAIN dash.summary :
          /\ dash.summary[g].driver_missing
          /\ \A n \in DealsOf(dash.summary[g].company) : deals[n].driver.k = "str"
          /\ ~dash.summary[h].driver_missing

RECURSIVE SummaryTotal(_, _)
\* the sum of f over the first n records of the summary
SummaryTotal(f, n) == IF n = 0 THEN 0 ELSE SummaryTotal(f, n - 1) + f[n]

\* C7: the totals shown for a month are the sums of the per-company figures:
\* total profit = the sum of the companies' profits, total tonnage = the sum
\* of the companies' tonnages, total transport cost = the sum of the
\* companies' transport costs, also when one driver surname occurs in deals of
\* two companies.
C7_TotalsAreSumsOverCompanies ==
    pc = "shown" =>
        LET N == Len(dash.summary)
        IN  /\ dash.totals.total_profit
                  = SummaryTotal([g \in 1..N |-> dash.summary[g].profit], N)
            /\ dash.totals.total_volume
                  = SummaryTotal([g \in 1..N |-> dash.summary[g].volume], N)
            /\ dash.totals.total_transport
                  = SummaryTotal([g \in 1..N |-> dash.summary[g].transport], N)

-----------------------------------------------------------------------------
(* display_dashboard of src/dashboard.py: the choice of the companies shown *)

\* synonyms_map, lines 141-147 of dashboard.py
synonyms_map ==
    {<<<<"t","r","i","t","o","n">>, <<"t","r","i","t","o","n"," ","t","r","e","j","d">>>>,
     <<<<"t","r","a","n","z","i","t","s","i","t","i">>,
       <<"t","k"," ","t","r","a","n","z","i","t"," ","s","i","t","i">>>>,
     <<<<"k","a","j","r","o","s">>, <<"k","a","j","r","o","s"," ","t","k">>>>,
     <<<<"m","7">>, <<"m","7"," ","s","o","f","t">>>>,
     <<<<"s","t","a","f">>, <<"T","D"," ","S","t","a","f">>>>}

\* line 150
client_keys(clients) == {Lower(Strip(k)) : k \in clients}

\* line 132: the rows with an addendum number of the counterparty
DealsWithDs(df) == SelectSeq(df, LAMBDA r : NotNa(r.ds_num))

\* line 135
available_companies(dd) == SortedStrs({CompanyKey(dd[n]) : n \in DOMAIN dd})

\* a variant of IsDefault that knows no synonyms
IsDefault_DirectOnly(comp, keys) == comp \in keys

\* lines 154-161: comp is appended to default_selected
IsDefault(comp, keys) ==
    \/ comp \in keys
    \/ \E e \in synonyms_map : e[1] \in keys /\ Strip(Lower(e[2])) = comp

\* a variant of DefaultSelected without the fallback
DefaultSelected_FailClosed(avail, keys) == SelectSeq(avail, LAMBDA c : IsDefault(c, keys))

\* lines 138-165
DefaultSelected(avail, keys) ==
    LET hits == SelectSeq(avail, LAMBDA c : IsDefault(c, keys))
    IN  IF hits = <<>> THEN avail ELSE hits

\* the options of the radio of lines 168-171, Timur and Vse
FilterModes == {"Timur", "Vse"}

\* lines 174-177
SelectedCompanies(mode, default, avail) == IF mode = "Timur" THEN default ELSE avail

\* lines 180-182
FilterDeals(dd, selected) ==
    IF selected # <<>>
    THEN SelectSeq(dd, LAMBDA r :
                           CompanyKey(r) \in {Lower(selected[n]) : n \in DOMAIN selected})
    ELSE dd

\* the number of rows of the month table shown
MaxShown == 3

\* a row of the month table with company and addendum number
ShownRow(company, ds) == DealRow(StrCell(company), ds, NaN, NaN, NanCell, NaN, NaN)

ShownPalette ==
    {ShownRow(<<"T","D"," ","S","t","a","f">>, Num(1)),
     ShownRow(<<" ","M","7"," ","s","o","f","t"," ">>, Num(2)),
     ShownRow(TxtAb, Num(3)),
     ShownRow(<<"s","t","a","f">>, Num(4)),
     ShownRow(<<"E","f">>, Num(5)),
     ShownRow(<<"Z","z">>, NaN)}

\* the keys of clients.json
Rosters ==
    {{<<" ","S","t","a","f"," ">>, <<"a","b">>},
     {<<"m","7">>},
     {<<"q","q">>},
     {}}

InitView ==
    /\ \E n \in 0..MaxShown : deals \in [1..n -> ShownPalette]
    /\ clients_dict \in Rosters
    /\ pc = "companies"
    /\ ViewIdle /\ LoadIdle /\ GenIdle
    /\ transport_map = {} /\ dash = <<>>
    /\ df_raw = <<>> /\ i = 0 /\ transport_start = <<>> /\ transport_end = <<>>
    /\ sales_rows = <<>> /\ transport_rows = <<>>
    /\ sales_df = <<>> /\ transport_df = <<>> /\ company_filter = <<>> /\ synonyms = {}
    /\ result = <<>>

\* lines 132-165: the deals and the preselection
SelectDefault ==
    /\ pc = "companies"
    /\ df_deals' = DealsWithDs(deals)
    /\ default_selected' =
          DefaultSelected(available_companies(DealsWithDs(deals)), client_keys(clients_dict))
    /\ pc' = "radio"
    /\ UNCHANGED <<df_raw, i, transport_start, transport_end, sales_rows, transport_rows,
                   sales_df, transport_df, company_filter, synonyms, result, deals,
                   clients_dict, transport_map, dash, filter_mode, selected_companies,
                   load_vars, gen_vars>>

\* lines 168-182: the radio and the filter
ApplyFilter ==
    /\ pc = "radio"
    /\ \E mode \in FilterModes :
          /\ filter_mode' = mode
          /\ selected_companies' =
                SelectedCompanies(mode, default_selected, available_companies(df_deals))
          /\ df_deals' =
                FilterDeals(df_deals,
                            SelectedCompanies(mode, default_selected,
                                              available_companies(df_deals)))
    /\ pc' = "filtered"
    /\ UNCHANGED <<df_raw, i, transport_start, transport_end, sales_rows, transport_rows,
                   sales_df, transport_df, company_filter, synonyms, result, deals,
                   clients_dict, transport_map, dash, default_selected,
                   load_vars, gen_vars>>

NextView == SelectDefault \/ ApplyFilter

SpecView == InitView /\ [][NextView]_vars

-----------------------------------------------------------------------------
(* what the claims about the selection speak of *)

\* the company keys available: those of the deals with an addendum number
AvailableKeys == {CompanyKey(deals[n]) : n \in {m \in DOMAIN deals : deals[m].ds_num.k = "num"}}

\* the roster keys, lower-cased and trimmed
RosterKeys == {Strip(Lower(k)) : k \in clients_dict}

\* the available keys that are a roster key or the full name of a synonym
\* entry whose abbreviation is in the roster
RosterMatches ==
    {c \in AvailableKeys :
        \/ c \in RosterKeys
        \/ \E e \in synonyms_map : e[1] \in RosterKeys /\ Lower(Strip(e[2])) = c}

\* the elements of a list
ElementsOf(l) == {l[n] : n \in DOMAIN l}

Preselected == pc \in {"radio", "filtered"}

\* C13: the default selection is exactly the set of available company keys c
\* that are a roster key or the lower-cased, trimmed full name of a synonym
\* entry whose abbreviation is in the roster; each appears once, under its own
\* key, and no other company is selected while this set is not empty.
C13_DefaultSelectionIsRosterMatches ==
    (Preselected /\ RosterMatches # {}) =>
        /\ ElementsOf(default_selected) = RosterMatches
        /\ Len(default_selected) = Cardinality(RosterMatches)

\* the preselection holds a company matched through a synonym under its own
\* key and one matched directly, and leaves out an available company
C13_Witness ==
    /\ Preselected
    /\ <<"t","d"," ","s","t","a","f">> \in ElementsOf(default_selected)
    /\ <<"t","d"," ","s","t","a","f">> \notin RosterKeys
    /\ \E c \in ElementsOf(default_selected) : c \in RosterKeys
    /\ \E c \in AvailableKeys : c \notin ElementsOf(default_selected)

\* C14: when no available company matches the roster, directly or through a
\* synonym, the default selection is the full list of available companies,
\* and the Timur mode shows the same companies as the Vse mode.
C14_FallbackSelectsAll ==
    (Preselected /\ RosterMatches = {}) =>
        /\ default_selected = SortedStrs(AvailableKeys)
        /\ pc = "filtered" =>
              /\ ElementsOf(selected_companies) = AvailableKeys
              /\ df_deals = SelectSeq(deals, LAMBDA r : r.ds_num.k = "num")

\* the Timur mode was applied to deals of two companies none of which matches
\* a roster that is not empty
C14_Witness ==
    /\ pc = "filtered" /\ filter_mode = "Timur"
    /\ RosterMatches = {} /\ clients_dict # {}
    /\ Cardinality(AvailableKeys) >= 2
    /\ Len(df_deals) >= 2

-----------------------------------------------------------------------------
(* load_sheet_data, data_utils.py lines 116-243, and the render loop of
   display_dashboard around it, dashboard.py lines 91-111 *)

\* lines 93-99: the Russian month names, transliterated
months ==
    <<<<"J","A","N","V","A","R">>,
      <<"F","E","V","R","A","L">>,
      <<"M","A","R","T">>,
      <<"A","P","R","E","L">>,
      <<"M","A","J">>,
      <<"I","J","U","N">>,
      <<"I","J","U","L">>,
      <<"A","V","G","U","S","T">>,
      <<"S","E","N","T","J","A","B","R">>,
      <<"O","K","T","J","A","B","R">>,
      <<"N","O","J","A","B","R">>,
      <<"D","E","K","A","B","R">>>>

\* lines 91-100: f"{months.get(month, '')} {year}"
get_month_sheet_name(month, year) ==
    (IF month \in DOMAIN months THEN months[month] ELSE <<>>) \o <<" ">> \o NatStr(year)

\* lines 199, 229: date.month - 1 or 12
prev_month(date) == IF date.month - 1 = 0 THEN 12 ELSE date.month - 1

\* the same line with the year of the date kept
prev_year_SameYear(date) == date.year

\* lines 200, 230: date.year if date.month > 1 else date.year - 1
prev_year(date) == IF date.month > 1 THEN date.year ELSE date.year - 1

\* lines 201, 231: the name of the sheet of the month before
alt_sheet(date) == get_month_sheet_name(prev_month(date), prev_year(date))

\* lines 196-206, 227-236: Optional name of the sheet to read
TargetSheet(date, sheet_names) ==
    IF get_month_sheet_name(date.month, date.year) \in sheet_names
    THEN <<get_month_sheet_name(date.month, date.year)>>
    ELSE IF alt_sheet(date) \in sheet_names THEN <<alt_sheet(date)>> ELSE <<>>

\* the branch of line 147 taken only for a file that can be read
FileBranch_OnlyReadable(c) == c.file = "ok"

\* line 147: if file is not None
FileBranch(c) == c.file # "none"

\* line 153: elif sheet_id
SheetBranch(c) == ~FileBranch(c) /\ c.sheet_id

\* the local file skipped
AfterFailure_SkipsLocal(source) == "api"

\* lines 172, 181: where load_sheet_data goes on after a source gave no workbook
AfterFailure(source) == IF source = "download" THEN "local" ELSE "api"

\* an entry of the log of sources tried
Attempt(source, outcome) == [source |-> source, outcome |-> outcome]

\* a workbook and where it came from; snap is the snapshot of the Google sheet
\* it holds, -1 for a file that is not a download
Workbook(src, snap) == [src |-> src, snap |-> snap]

\* raise RuntimeError, with the stage that raised it
Raise(stage) == [kind |-> "RuntimeError", stage |-> stage]

\* return df_month, df_raw, target_sheet
Returns(sheet, book) ==
    [kind |-> "returned", sheet |-> sheet, src |-> book.src, snap |-> book.snap]

\* the flag cleared after every load
FlagAfterLoad_AlwaysReset(flag, outcome) == FALSE

\* dashboard.py lines 99-111: the flag is cleared inside the try, after the call
FlagAfterLoad(flag, outcome) == IF outcome.kind = "returned" THEN FALSE ELSE flag

\* how often the Google sheet is edited in a behaviour
MaxEdits == 2

Dates == {[month |-> 1, year |-> 2025], [month |-> 8, year |-> 2025]}

\* the sheet names of the workbooks: with the month of the date, with the month
\* before only, with neither (December of the wrong year, two months back), empty
Workbooks ==
    {{get_month_sheet_name(1, 2025), get_month_sheet_name(12, 2024),
      get_month_sheet_name(8, 2025), get_month_sheet_name(7, 2025)},
     {get_month_sheet_name(12, 2024), get_month_sheet_name(7, 2025)},
     {get_month_sheet_name(12, 2025), get_month_sheet_name(6, 2025),
      get_month_sheet_name(2, 2025), get_month_sheet_name(9, 2025)},
     {}}

InitLoad ==
    /\ \E d \in Dates, names \in Workbooks :
          call = [file |-> "none", sheet_id |-> FALSE, date |-> d,
                  prefer_cache |-> TRUE, sheet_names |-> names]
    /\ pc = "idle"
    /\ excel_file = <<>> /\ attempts = <<>> /\ loaded = <<>>
    /\ lru_cache = <<>> /\ remote = 0 /\ refresh_data = FALSE
    /\ rendered = <<>> /\ refresh_snap = <<>>
    /\ ViewIdle /\ GenIdle
    /\ transport_map = {} /\ dash = <<>> /\ deals = <<>> /\ clients_dict = {}
    /\ df_raw = <<>> /\ i = 0 /\ transport_start = <<>> /\ transport_end = <<>>
    /\ sales_rows = <<>> /\ transport_rows = <<>>
    /\ sales_df = <<>> /\ transport_df = <<>> /\ company_filter = <<>> /\ synonyms = {}
    /\ result = <<>>

\* somebody edits the Google sheet
RemoteEdit ==
    /\ pc = "idle"
    /\ remote < MaxEdits
    /\ remote' = remote + 1
    /\ UNCHANGED <<pc, call, excel_file, attempts, loaded, lru_cache, refresh_data,
                   rendered, refresh_snap, table_vars, view_vars, gen_vars>>

\* dashboard.py lines 91-104: the button, then the call of load_sheet_data
RenderStart ==
    /\ pc = "idle"
    /\ \E click \in BOOLEAN, file \in {"none", "ok", "bad"}, sheet_id \in BOOLEAN :
          /\ refresh_data' = (click \/ refresh_data)
          /\ call' = [call EXCEPT !.file = file, !.sheet_id = sheet_id,
                                  !.prefer_cache = ~(click \/ refresh_data)]
          /\ refresh_snap' = IF click \/ refresh_data THEN <<>> ELSE refresh_snap
    /\ excel_file' = <<>> /\ attempts' = <<>> /\ loaded' = <<>> /\ rendered' = <<>>
    /\ pc' = "load"
    /\ UNCHANGED <<lru_cache, remote, table_vars, view_vars, gen_vars>>

\* lines 147-152: the uploaded file
OpenFile ==
    /\ pc = "load"
    /\ FileBranch(call)
    /\ IF call.file = "ok"
       THEN /\ excel_file' = <<Workbook("file", -1)>>
            /\ attempts' = Append(attempts, Attempt("file", "ok"))
            /\ pc' = "sheet"
            /\ UNCHANGED loaded
       ELSE /\ attempts' = Append(attempts, Attempt("file", "failed"))
            /\ loaded' = Raise("file")
            /\ pc' = "raised"
            /\ UNCHANGED excel_file
    /\ UNCHANGED <<call, lru_cache, remote, refresh_data, rendered, refresh_snap,
                   table_vars, view_vars, gen_vars>>

\* lines 153-170: the public export, through _download_google_sheet (lines
\* 103-113, lru_cache) when prefer_cache, straight from the network otherwise
Download ==
    /\ pc = "load"
    /\ SheetBranch(call)
    /\ \E ok \in BOOLEAN :
          IF call.prefer_cache /\ lru_cache # <<>>
          THEN /\ excel_file' = <<Workbook("download", lru_cache[1])>>
               /\ attempts' = Append(attempts, Attempt("download", "ok"))
               /\ pc' = "sheet"
               /\ UNCHANGED lru_cache
          ELSE IF ok
          THEN /\ excel_file' = <<Workbook("download", remote)>>
               /\ attempts' = Append(attempts, Attempt("download", "ok"))
               /\ lru_cache' = IF call.prefer_cache THEN <<remote>> ELSE lru_cache
               /\ pc' = "sheet"
          ELSE /\ attempts' = Append(attempts, Attempt("download", "failed"))
               /\ pc' = AfterFailure("download")
               /\ UNCHANGED <<excel_file, lru_cache>>
    /\ UNCHANGED <<call, loaded, remote, refresh_data, rendered, refresh_snap,
                   table_vars, view_vars, gen_vars>>

\* lines 172-178: the local file <sheet_id>.xlsx
LocalFile ==
    /\ pc = "local"
    /\ \E found \in {"absent", "failed", "ok"} :
          /\ attempts' = Append(attempts, Attempt("local", found))
          /\ IF found = "ok"
             THEN excel_file' = <<Workbook("local", -1)>> /\ pc' = "sheet"
             ELSE pc' = AfterFailure("local") /\ UNCHANGED excel_file
    /\ UNCHANGED <<call, loaded, lru_cache, remote, refresh_data, rendered,
                   refresh_snap, table_vars, view_vars, gen_vars>>

\* lines 181-223: the service account; absent when gspread or the credentials
\* are missing; it returns the sheet itself or leaves load_sheet_data to raise
ServiceAccount ==
    /\ pc = "api"
    /\ \E found \in {"absent", "failed", "ok"} :
          LET target == TargetSheet(call.date, call.sheet_names)
              opened == found = "ok" /\ target # <<>>
          IN  /\ attempts' =
                    Append(attempts,
                           Attempt("api", IF found = "ok" /\ ~opened THEN "failed" ELSE found))
              /\ IF opened
                 THEN loaded' = Returns(target[1], Workbook("api", remote)) /\ pc' = "returned"
                 ELSE loaded' = Raise("source") /\ pc' = "raised"
    /\ UNCHANGED <<call, excel_file, lru_cache, remote, refresh_data, rendered,
                   refresh_snap, table_vars, view_vars, gen_vars>>

\* lines 224-225: neither a file nor a sheet id
NoSource ==
    /\ pc = "load"
    /\ ~FileBranch(call) /\ ~SheetBranch(call)
    /\ loaded' = Raise("nosource")
    /\ pc' = "raised"
    /\ UNCHANGED <<call, excel_file, attempts, lru_cache, remote, refresh_data,
                   rendered, refresh_snap, table_vars, view_vars, gen_vars>>

\* lines 226-243: the sheet of the month, or of the month before, is read
ReadSheet ==
    /\ pc = "sheet"
    /\ LET target == TargetSheet(call.date, call.sheet_names)
       IN  IF target = <<>>
           THEN loaded' = Raise("sheet")
           ELSE \E ok \in BOOLEAN :
                   loaded' = IF ok THEN Returns(target[1], excel_file[1]) ELSE Raise("read")
    /\ pc' = IF loaded'.kind = "returned" THEN "returned" ELSE "raised"
    /\ UNCHANGED <<call, excel_file, attempts, lru_cache, remote, refresh_data,
                   rendered, refresh_snap, table_vars, view_vars, gen_vars>>

\* dashboard.py lines 108-111: the flag is cleared and the page drawn, or the
\* error is shown and the render ends
RenderDone ==
    /\ pc \in {"returned", "raised"}
    /\ refresh_data' = FlagAfterLoad(refresh_data, loaded)
    /\ rendered' = IF loaded.kind = "returned"
                   THEN [kind |-> "tables", src |-> loaded.src, snap |-> loaded.snap,
                         forced |-> ~call.prefer_cache]
                   ELSE [kind |-> "error", src |-> "", snap |-> -1,
                         forced |-> ~call.prefer_cache]
    /\ refresh_snap' = IF loaded.kind = "returned" /\ ~call.prefer_cache
                          /\ loaded.src \in {"download", "api"}
                       THEN <<loaded.snap>> ELSE refresh_snap
    /\ pc' = "idle"
    /\ UNCHANGED <<call, excel_file, attempts, loaded, lru_cache, remote,
                   table_vars, view_vars, gen_vars>>

NextLoad ==
    \/ RemoteEdit \/ RenderStart \/ OpenFile \/ Download \/ LocalFile
    \/ ServiceAccount \/ NoSource \/ ReadSheet \/ RenderDone

SpecLoad == InitLoad /\ [][NextLoad]_vars

-----------------------------------------------------------------------------
(* what the claims about load_sheet_data speak of *)

\* the call of load_sheet_data has ended
LoadEnded == loaded # <<>>

LoadReturned == LoadEnded /\ loaded.kind = "returned"

LoadRaised == LoadEnded /\ loaded.kind = "RuntimeError"

\* '<MONTH> <YEAR>' of the date of the call
CurrentSheet == get_month_sheet_name(call.date.month, call.date.year)

\* the sheet of the calendar month before the date of the call
PreviousSheet ==
    IF call.date.month = 1
    THEN get_month_sheet_name(12, call.date.year - 1)
    ELSE get_month_sheet_name(call.date.month - 1, call.date.year)

\* C21: load_sheet_data returns the sheet of the month of the date when the
\* workbook has it, otherwise the sheet of the calendar month before (December
\* of the year before in January) when the workbook has that one; it raises
\* RuntimeError for a missing sheet exactly when the workbook has neither, and
\* never returns any other sheet
C21_SheetOfMonthOrMonthBefore ==
    /\ LoadReturned =>
          \/ CurrentSheet \in call.sheet_names /\ loaded.sheet = CurrentSheet
          \/ /\ CurrentSheet \notin call.sheet_names
             /\ PreviousSheet \in call.sheet_names
             /\ loaded.sheet = PreviousSheet
    /\ (LoadRaised /\ loaded.stage = "sheet") =>
          /\ CurrentSheet \notin call.sheet_names
          /\ PreviousSheet \notin call.sheet_names
    /\ (LoadEnded /\ excel_file # <<>> /\ CurrentSheet \notin call.sheet_names
           /\ PreviousSheet \notin call.sheet_names) => loaded = Raise("sheet")

\* a call in January returned the December sheet of the year before
C21_Witness ==
    /\ LoadReturned
    /\ call.date.month = 1
    /\ CurrentSheet \notin call.sheet_names
    /\ loaded.sheet = get_month_sheet_name(12, 2024)

\* C22: a call with a file uses the file only: no download, local file or
\* service account is tried, whatever sheet_id is, and a file that cannot be
\* read raises RuntimeError; a call with neither a file nor a sheet id raises
\* RuntimeError
C22_FileIsTheOnlySource ==
    /\ call.file # "none" =>
          /\ \A n \in DOMAIN attempts : attempts[n].source = "file"
          /\ LoadReturned => loaded.src = "file"
    /\ (call.file = "bad" /\ pc # "load") =>
          /\ loaded = Raise("file")
          /\ attempts = <<Attempt("file", "failed")>>
          /\ excel_file = <<>>
    /\ (call.file = "none" /\ ~call.sheet_id /\ pc \notin {"idle", "load"}) =>
          LoadRaised /\ attempts = <<>>

\* a call with an unreadable file and a sheet id raised for the file
C22_Witness ==
    /\ call.file = "bad" /\ call.sheet_id
    /\ loaded = Raise("file")
    /\ pc = "raised"


\* the order the claim gives the sources of a call with a sheet id only
SourceOrder == <<"download", "local", "api">>

\* the call has a sheet id and no file
SheetIdOnly == call.file = "none" /\ call.sheet_id

\* the sources are tried in the claimed order, each after all before it gave no
\* workbook, and a returned call's data come from the one source that succeeded
TriedInOrder ==
    /\ Len(attempts) <= Len(SourceOrder)
    /\ \A n \in DOMAIN attempts :
          /\ attempts[n].source = SourceOrder[n]
          /\ n < Len(attempts) => attempts[n].outcome # "ok"
    /\ LoadReturned =>
          /\ attempts # <<>>
          /\ attempts[Len(attempts)] = Attempt(loaded.src, "ok")

\* every source was tried and none gave a workbook
AllSourcesFailed ==
    /\ Len(attempts) = Len(SourceOrder)
    /\ \A n \in DOMAIN attempts : attempts[n].outcome # "ok"

\* C25 as stated: with a sheet id only, the sources are tried in the order
\* download, local file, service account, a later one only after every earlier
\* one failed, the first that succeeds supplies the data, and RuntimeError is
\* raised only when all sources failed
C25_Original ==
    SheetIdOnly => (TriedInOrder /\ (LoadRaised => AllSourcesFailed))

\* C25 amended: the same order; a RuntimeError for want of a source is raised
\* only when all sources failed, and every other RuntimeError of such a call
\* comes after a source succeeded, for a workbook without the month's sheets or
\* a sheet that cannot be read
C25_SourcesInFixedOrder ==
    SheetIdOnly =>
       /\ TriedInOrder
       /\ (LoadRaised /\ loaded.stage = "source") => AllSourcesFailed
       /\ (LoadRaised /\ loaded.stage # "source") =>
             /\ loaded.stage \in {"sheet", "read"}
             /\ attempts[Len(attempts)].outcome = "ok"
       /\ (pc = "raised" /\ AllSourcesFailed) => loaded = Raise("source")

\* the download failed, the local file was read and supplied the data
C25_Witness ==
    /\ SheetIdOnly
    /\ LoadReturned
    /\ attempts = <<Attempt("download", "failed"), Attempt("local", "ok")>>
    /\ loaded.src = "local"


\* C27: after a render with refresh_data set has loaded snapshot S of the Google
\* sheet, every later render without a new refresh shows the data of S or of a
\* newer snapshot
C27_FreshAfterForcedRefresh ==
    (/\ rendered # <<>>
     /\ rendered.kind = "tables"
     /\ ~rendered.forced
     /\ rendered.src = "download"
     /\ refresh_snap # <<>>) => rendered.snap >= refresh_snap[1]

\* C28: refresh_data goes from True to False only in a render whose
\* load_sheet_data call returned; when the call raised, the flag keeps its
\* value and the page shows the error and no table, and the render that
\* follows calls load_sheet_data with prefer_cache false again
C28_FlagClearedOnlyBySuccessfulLoad ==
    [][/\ (refresh_data /\ ~refresh_data') => (pc = "returned" /\ LoadReturned)
       /\ pc = "raised" =>
             /\ refresh_data' = refresh_data
             /\ rendered'.kind = "error"
       /\ (pc = "idle" /\ pc' = "load" /\ rendered # <<>> /\ rendered.kind = "error"
              /\ rendered.forced) => ~call'.prefer_cache]_vars

\* a forced refresh failed: the page shows the error and the flag is still set
C28_Witness ==
    /\ pc = "idle"
    /\ rendered # <<>>
    /\ rendered.kind = "error"
    /\ rendered.forced
    /\ refresh_data

-----------------------------------------------------------------------------
(* parse_transport_table, data_utils.py lines 246-289 *)

\* the literal of line 261
TableMarker == <<"T","R","A","N","S","P","O","R","T">>

\* the literals of line 272
TableTerminators == {<<"V","S","E","G","O">>, <<"I","T","O","G","O">>}

\* str.contains(p, case=False) for a literal p
ContainsNoCase(s, p) ==
    \E n \in 1..(Len(s) - Len(p) + 1) : Lower(SubSeq(s, n, n + Len(p) - 1)) = Lower(p)

\* line 261: the 0-based indices of the rows whose column 0 contains the marker
start_indices(sheet_df) ==
    {n \in 0..(Len(sheet_df.rows) - 1) :
        ContainsNoCase(Str(sheet_df.rows[n + 1][0]), TableMarker)}

\* the smallest of a non-empty set of integers
MinOf(S) == CHOOSE x \in S : \A y \in S : x <= y

\* lines 277-285: float(cell) if pd.notna(cell) else 0.0, and 0.0 when float raises
TableFloat(cell) ==
    CASE cell.k = "num" -> Num(cell.v)
      [] cell.k = "str" -> (IF PyFloat(cell.s).k = "none" THEN Num(0) ELSE PyFloat(cell.s))
      [] OTHER -> Num(0)

\* lines 275-276: the tariff of column H and the mass of column O, None for the
\* mass when the sheet has no column O
RowTariff(sheet_df, row) == TableFloat(row[idx_service_price])

RowMass(sheet_df, row) ==
    TableFloat(IF sheet_df.ncols > idx_tonnage THEN row[idx_tonnage] ELSE NoneCell)

\* line 285: cost = numeric_tariff * numeric_mass, in hundredths
RowCost(sheet_df, row) == Product(RowTariff(sheet_df, row), RowMass(sheet_df, row))

\* line 288: transport_map[surname] = cost
DictSet(d, key, value) == {e \in d : e[1] # key} \cup {<<key, value>>}

RECURSIVE TableLoop(_, _, _)
\* lines 265-288: the loop from row n on, map being the dict built so far
TableLoop(sheet_df, n, map) ==
    IF n >= Len(sheet_df.rows) THEN map
    ELSE LET row == sheet_df.rows[n + 1]
             name_val == row[0]
             name_str == Strip(Str(name_val))
             surname == Lower(FirstToken(name_str))
         IN  IF name_val.k \in {"nan", "none"} \/ name_str = <<>>
             THEN TableLoop(sheet_df, n + 1, map)
             ELSE IF Upper(name_str) \in TableTerminators
             THEN map
             ELSE IF surname # <<>>
             THEN TableLoop(sheet_df, n + 1, DictSet(map, surname, RowCost(sheet_df, row)))
             ELSE TableLoop(sheet_df, n + 1, map)

\* lines 259-289; the dict is a set of pairs <<surname, cost>>, the cost a
\* float in hundredths
parse_transport_table(sheet_df) ==
    IF start_indices(sheet_df) = {} THEN {}
    ELSE TableLoop(sheet_df, MinOf(start_indices(sheet_df)) + 1, {})

\* a line of the sheet with a name, a tariff and a mass
TableRow(name, tariff, mass) ==
    GridRow(name, NanCell, NanCell, NanCell, tariff, NanCell, mass, NanCell, NanCell)

\* lines of the transport block: Petrov twice, in two spellings; Ivanov with a
\* negative tariff and with a tariff that is text; a line without a name; a
\* line whose mass is unfilled; the line that ends the block
TablePalette ==
    {TableRow(StrCell(TxtPetrovI), NumCell(500), NumCell(83)),
     TableRow(StrCell(<<" ","p","e","t","r","o","v"," ">>), NumCell(100), NumCell(20)),
     TableRow(StrCell(TxtIvanov), NumCell(-500), NumCell(83)),
     TableRow(StrCell(TxtIvanov), StrCell(<<"x">>), NumCell(83)),
     TableRow(NanCell, NumCell(500), NumCell(83)),
     TableRow(StrCell(TxtPetrov), NumCell(500), NanCell),
     TableRow(StrCell(<<" ","V","s","e","g","o"," ">>), NumCell(900), NumCell(10))}

\* sheets with the marker row, without it, and without column O
TableGrids ==
    [heads |-> {[rows |-> <<HeaderRow, MarkerRow>>, ncols |-> FullWidth],
                [rows |-> <<HeaderRow, HeaderRow>>, ncols |-> FullWidth],
                [rows |-> <<HeaderRow, MarkerRow>>, ncols |-> idx_tonnage]},
     palette |-> TablePalette]

InitTable ==
    /\ IsGridOf(df_raw, TableGrids)
    /\ pc = "sheet_read"
    /\ transport_map = {}
    /\ ViewIdle /\ LoadIdle /\ GenIdle
    /\ dash = <<>> /\ deals = <<>> /\ clients_dict = {}
    /\ i = 0 /\ transport_start = <<>> /\ transport_end = <<>>
    /\ sales_rows = <<>> /\ transport_rows = <<>>
    /\ sales_df = <<>> /\ transport_df = <<>> /\ company_filter = <<>> /\ synonyms = {}
    /\ result = <<>>

\* dashboard.py line 115: transport_map = parse_transport_table(df_raw)
ParseTransportTable ==
    /\ pc = "sheet_read"
    /\ transport_map' = parse_transport_table(df_raw)
    /\ pc' = "mapped"
    /\ UNCHANGED <<df_raw, i, transport_start, transport_end, sales_rows, transport_rows,
                   sales_df, transport_df, company_filter, synonyms, result, deals,
                   clients_dict, dash, view_vars, load_vars, gen_vars>>

NextTable == ParseTransportTable

SpecTable == InitTable /\ [][NextTable]_vars

-----------------------------------------------------------------------------
(* what the claims about parse_transport_table speak of *)

\* the 0-based index of the first row whose column 0 contains the marker
BlockStart == MinOf(start_indices(df_raw))

\* column 0 of row n, as stripped text
NameAt(n) == Strip(Str(df_raw.rows[n + 1][0]))

\* row n is a total row
IsTotalRow(n) ==
    /\ df_raw.rows[n + 1][0].k \notin {"nan", "none"}
    /\ Upper(NameAt(n)) \in TableTerminators

\* the rows after the marker row and before the first total row that name a driver
BlockLines ==
    IF start_indices(df_raw) = {} THEN {}
    ELSE {n \in (BlockStart + 1)..(Len(df_raw.rows) - 1) :
             /\ \A m \in (BlockStart + 1)..n : ~IsTotalRow(m)
             /\ df_raw.rows[n + 1][0].k \notin {"nan", "none"}
             /\ NameAt(n) # <<>>}

\* the lower-cased first token of column 0 of row n
SurnameAt(n) == Lower(FirstToken(NameAt(n)))

\* tariff * mass of row n
LineCost(n) == RowCost(df_raw, df_raw.rows[n + 1])

RECURSIVE SumLines(_)
\* the sum of tariff * mass over the rows of S, in hundredths
SumLines(S) ==
    IF S = {} THEN 0
    ELSE LET n == CHOOSE m \in S : TRUE IN LineCost(n).v + SumLines(S \ {n})

\* parse_transport_table has returned
Mapped == pc = "mapped"

\* the keys of the map are the surnames of the block's lines
KeysAreBlockSurnames ==
    Mapped => MapKeys(transport_map) = {SurnameAt(n) : n \in BlockLines}

\* C24: the keys of the map are the lower-cased surnames of the rows between
\* the marker row and the first total row, and every value is a non-negative
\* amount, whatever the tariff and mass cells hold
C24_KeysAndAbsoluteCosts ==
    Mapped =>
       /\ MapKeys(transport_map) = {SurnameAt(n) : n \in BlockLines}
       /\ \A e \in transport_map : e[2].k = "num" /\ e[2].v >= 0

\* C30: the value stored for a surname is the sum of tariff * mass over all
\* the lines of the block with that surname
C30_ValueIsSumOverLines ==
    Mapped =>
       \A e \in transport_map :
          e[2] = Num(SumLines({n \in BlockLines : SurnameAt(n) = e[1]}))

-----------------------------------------------------------------------------
(* generate_document, generator_utils.py lines 45-174 (main.py lines 108-197
   is the same code under the name generate_document_new) *)

\* the dictionaries of load_dictionaries, as sets of pairs <<key, value>>
Clients == {<<<<"a","b">>, <<"O","O","O"," ","A","b">>>>}

Products == {<<<<"d","t">>, <<"D","i","z","e","l">>>>}

Locations == {<<<<"s","k","l","a","d">>, <<"U","l"," ","1">>>>}

Neftebazy == {<<<<"n","b","1">>, <<"N","B"," ","1">>>>}

\* dict.get(key.lower()): <<>> is None, <<v>> the value
Lookup(dict, key) ==
    IF \E e \in dict : e[1] = Lower(key)
    THEN <<(CHOOSE e \in dict : e[1] = Lower(key))[2]>>
    ELSE <<>>

\* not x, for an Optional[str]: None and '' are falsy
Falsy(x) == x = <<>> \/ x[1] = <<>>

\* int(s): surrounding whitespace and a sign are accepted; <<>> stands for the
\* ValueError int raises
PyInt(s0) ==
    LET s == Strip(s0)
        body == IF s # <<>> /\ Head(s) \in {"-", "+"} THEN Tail(s) ELSE s
    IN  IF body # <<>> /\ AllDigits(body)
        THEN <<IF s # <<>> /\ Head(s) = "-" THEN -NatVal(body) ELSE NatVal(body)>>
        ELSE <<>>

\* str.capitalize()
Capitalize(s) ==
    [n \in DOMAIN s |-> IF n = 1 THEN UpperChar(s[n]) ELSE LowerChar(s[n])]

\* an entry of the errors list: what is missing and the name that was given
ErrorItem(what, name) == [what |-> what, name |-> name]

\* lines 92-98: the client and the product
KeyErrors(req) ==
    (IF Falsy(Lookup(Clients, req.client_key[1]))
     THEN <<ErrorItem("klient", req.client_key[1])>> ELSE <<>>)
    \o (IF Falsy(Lookup(Products, req.product_key[1]))
        THEN <<ErrorItem("tovar", req.product_key[1])>> ELSE <<>>)

\* lines 100-124: the location of the delivery method
LocationErrors(req) ==
    IF req.delivery_method = "samovyvoz"
    THEN (IF Falsy(req.pickup_location)
          THEN <<ErrorItem("ne vybrana lokacija dlja samovyvoza", <<>>)>>
          ELSE IF Falsy(Lookup(Locations, req.pickup_location[1]))
          THEN <<ErrorItem("adres", req.pickup_location[1])>>
          ELSE <<>>)
    ELSE IF req.delivery_method = "neftebaza"
    THEN (IF Falsy(req.neftebaza_location)
          THEN <<ErrorItem("ne vybrana neftebaza", <<>>)>>
          ELSE IF Falsy(Lookup(Neftebazy, req.neftebaza_location[1]))
          THEN <<ErrorItem("neftebaza", req.neftebaza_location[1])>>
          ELSE <<>>)
    ELSE (IF Falsy(req.delivery_address) \/ Strip(req.delivery_address[1]) = <<>>
          THEN <<ErrorItem("ne ukazan adres dostavki", <<>>)>>
          ELSE <<>>)

\* an errors list that a first error closes
LookupErrors_FirstOnly(req) ==
    IF KeyErrors(req) # <<>> THEN <<Head(KeyErrors(req))>> ELSE LocationErrors(req)

\* lines 94-124: the errors list
LookupErrors(req) == KeyErrors(req) \o LocationErrors(req)

\* the literal every error message of a kind begins with
ErrorPrefix(kind) ==
    CASE kind = "template" -> "Oshibka: shablon ne najden"
      [] kind = "lookup" -> "Oshibka: ne najdeny dannye dlja: "
      [] kind = "integers" -> "Oshibka: kolichestvo tonn i cena dolzhny byt celymi chislami."
      [] OTHER -> "Neizvestnaja oshibka: "

\* an error message: its kind, its leading literal and the items it lists
ErrorMessage(kind, items) == [kind |-> kind, text |-> ErrorPrefix(kind), items |-> items]

\* a failure that returns four None
Fail_NoMessage(kind, items) == <<<<>>, <<>>, <<>>, <<>>>>

\* return None, None, None, message
Fail(kind, items) == <<<<>>, <<>>, <<>>, <<ErrorMessage(kind, items)>>>>

\* lines 108, 159-165: the file name, by the delivery method
FilenameBase(req) ==
    [product |-> Upper(req.product_key[1]),
     place |-> IF req.delivery_method = "samovyvoz"
               THEN Capitalize(req.pickup_location[1]) ELSE <<>>,
     method |-> IF req.delivery_method = "samovyvoz" THEN "Samovyvoz"
                ELSE IF req.delivery_method = "neftebaza" THEN "Neftebaza"
                ELSE "Dostavka"]

\* lines 81-174.  rendered_ok is whether docxtpl and num2words went through
\* without an exception; a key that is None makes .lower() raise, which the
\* except of line 173 turns into a message as it does any other exception
generate_document(req, rendered_ok) ==
    IF ~req.template_exists THEN Fail("template", <<>>)
    ELSE IF req.client_key = <<>> \/ req.product_key = <<>> THEN Fail("unknown", <<>>)
    ELSE IF LookupErrors(req) # <<>> THEN Fail("lookup", LookupErrors(req))
    ELSE IF PyInt(req.tons_str) = <<>> \/ PyInt(req.price_str) = <<>>
    THEN Fail("integers", <<>>)
    ELSE IF ~rendered_ok THEN Fail("unknown", <<>>)
    ELSE <<<<"docx">>, <<>>, <<FilenameBase(req)>>, <<>>>>

\* what the form can hand over
Requests ==
    [template_exists : BOOLEAN,
     client_key : {<<>>, <<<<"A","b">>>>, <<<<"z","z">>>>},
     product_key : {<<<<"D","T">>>>, <<<<"q","q">>>>},
     delivery_method : {"samovyvoz", "neftebaza", "dostavka", "pochta"},
     pickup_location : {<<>>, <<<<"S","k","l","a","d">>>>, <<<<"x">>>>},
     neftebaza_location : {<<>>, <<<<"N","B","1">>>>, <<<<>>>>},
     delivery_address : {<<>>, <<<<" "," ">>>>, <<<<" ","U","l"," ","2"," ">>>>},
     tons_str : {<<"1","2">>, <<" ","7"," ">>, <<"x">>},
     price_str : {<<"1","0","0">>, <<"1",".","5">>}]

InitGen ==
    /\ request \in Requests
    /\ generated = <<>>
    /\ pc = "form"
    /\ ViewIdle /\ LoadIdle
    /\ transport_map = {} /\ dash = <<>> /\ deals = <<>> /\ clients_dict = {}
    /\ df_raw = <<>> /\ i = 0 /\ transport_start = <<>> /\ transport_end = <<>>
    /\ sales_rows = <<>> /\ transport_rows = <<>>
    /\ sales_df = <<>> /\ transport_df = <<>> /\ company_filter = <<>> /\ synonyms = {}
    /\ result = <<>>

\* one call of generate_document
GenerateDocument ==
    /\ pc = "form"
    /\ \E rendered_ok \in BOOLEAN : generated' = generate_document(request, rendered_ok)
    /\ pc' = "generated"
    /\ UNCHANGED <<request, table_vars, view_vars, load_vars>>

NextGen == GenerateDocument

SpecGen == InitGen /\ [][NextGen]_vars

-----------------------------------------------------------------------------
(* what the claims about generate_document speak of *)

Generated == pc = "generated"

docx_data == generated[1]

pdf_data == generated[2]

filename_base == generated[3]

error_message == generated[4]

\* C23: generate_document returns four values of which exactly one of docx_data
\* and error_message is None; on success docx_data and filename_base are set;
\* on failure docx_data, pdf_data and filename_base are None and error_message
\* is a non-empty text; pdf_data is None in every outcome
C23_FourTupleOneOfDocxAndError ==
    Generated =>
       /\ Len(generated) = 4
       /\ pdf_data = <<>>
       /\ (docx_data = <<>>) # (error_message = <<>>)
       /\ error_message = <<>> => (docx_data # <<>> /\ filename_base # <<>>)
       /\ error_message # <<>> =>
             /\ docx_data = <<>> /\ filename_base = <<>>
             /\ error_message[1].text # ""

\* a call failed on the numbers: a message and no document
C23_Witness ==
    /\ Generated
    /\ error_message # <<>>
    /\ error_message[1].kind = "integers"
    /\ request.tons_str = <<"x">>

\* the client of the request is not in the dictionary
ClientUnknown == Lookup(Clients, request.client_key[1]) = <<>>

ProductUnknown == Lookup(Products, request.product_key[1]) = <<>>

\* the delivery method is handled as a delivery to the buyer
AsDelivery == request.delivery_method \notin {"samovyvoz", "neftebaza"}

\* the location the delivery method needs is missing or unknown
LocationProblem ==
    CASE request.delivery_method = "samovyvoz" ->
            \/ Falsy(request.pickup_location)
            \/ Lookup(Locations, request.pickup_location[1]) = <<>>
      [] request.delivery_method = "neftebaza" ->
            \/ Falsy(request.neftebaza_location)
            \/ Lookup(Neftebazy, request.neftebaza_location[1]) = <<>>
      [] OTHER ->
            \/ Falsy(request.delivery_address)
            \/ Strip(request.delivery_address[1]) = <<>>

\* the kinds of entries a message lists
Listed(message) == {message.items[n].what : n \in DOMAIN message.items}

\* the entries that name a location
LocationItems ==
    {"ne vybrana lokacija dlja samovyvoza", "adres", "ne vybrana neftebaza",
     "neftebaza", "ne ukazan adres dostavki"}

\* C26: a missing template is reported whatever else is wrong; with the
\* template there, an unknown client, an unknown product and a missing or
\* unknown location are reported together in one message, each exactly when it
\* is the case; the message about integers is given only when none of them is;
\* a delivery method other than samovyvoz and neftebaza needs a non-blank
\* delivery_address and is named Dostavka
C26_FirstFailingStageOnly ==
    Generated =>
       /\ ~request.template_exists =>
             (error_message # <<>> /\ error_message[1].kind = "template")
       /\ (request.template_exists /\ request.client_key # <<>>) =>
             /\ (ClientUnknown \/ ProductUnknown \/ LocationProblem) =>
                   /\ error_message # <<>>
                   /\ error_message[1].kind = "lookup"
                   /\ ("klient" \in Listed(error_message[1])) = ClientUnknown
                   /\ ("tovar" \in Listed(error_message[1])) = ProductUnknown
                   /\ (Listed(error_message[1]) \cap LocationItems # {}) = LocationProblem
             /\ (error_message # <<>> /\ error_message[1].kind = "integers") =
                   /\ ~(ClientUnknown \/ ProductUnknown \/ LocationProblem)
                   /\ (PyInt(request.tons_str) = <<>> \/ PyInt(request.price_str) = <<>>)
             /\ (AsDelivery /\ error_message = <<>>) =>
                   /\ ~LocationProblem
                   /\ filename_base[1].method = "Dostavka"

\* an unknown client, an unknown product and a blank address, in one message,
\* for a delivery method the code does not name, with tons that are no integer
C26_Witness ==
    /\ Generated
    /\ request.delivery_method = "pochta"
    /\ request.tons_str = <<"x">>
    /\ error_message # <<>>
    /\ Listed(error_message[1]) = {"klient", "tovar", "ne ukazan adres dostavki"}

====
